---- MODULE Spec2Model ----
(***************************************************************************)
(* SpinalSolution firmware (basic and advanced sketch): the menu state     *)
(* machine of loop()/executeSelection(), the Measuring loop of             *)
(* measuringMenu1() with its streaming regression, the graph windows of    *)
(* graphColor() and the Calibrating run of calibrationMenu().              *)
(*                                                                         *)
(* Numbers.  The sketches compute in float/double; the model computes the  *)
(* same expressions exactly.  Sample instants that are accepted are        *)
(* multiples of 60 ms and readings are multiples of 10 with initial        *)
(* reading 100 or 0, so that every quotient the accepted samples need is   *)
(* an integer.  Sums that exceed 31 bits are kept as Wide numbers (four    *)
(* limbs, base 10000, the top limb signed).                                *)
(***************************************************************************)
EXTENDS Integers, Sequences, FiniteSets

VARIABLES
  build,                \* "basic" | "advanced": which sketch is flashed
  intMul,               \* outcome of the signed 16-bit overflow in datalen * ms_time
  scen,                 \* timing and readings the environment delivers
  pc,                   \* control position
  currentMenu, currentSelection,
  histSelect, histSwitch,          \* buttons(): historicSelectState, historicSwitchState
  button_pressed,       \* loop(): what buttons() returned last, -1 before the first return
  heldBursts,           \* bursts in a row (counted to 2) that polled a press made
                        \* and held during the run and saw no edge
  runs,                 \* Measuring and Calibrating runs started since boot
  historicSelectState,  \* measuringMenu1(): level read at session start
  n,                    \* index of the loop iteration of the session
  current_time, past_time, datalen,
  x2, xy, initial, initialTaken,
  specReadings, uvReading,
  slopes,
  accepted,             \* iterations whose sample was accumulated
  bursts,               \* debounce bursts run in this session
  exitBy,               \* why the loop was left
  logHeader, logRows,   \* header and rows sent to the log file of the session
  logSent,              \* what was sent to the log file of the session, in order
  index, calibration, uvCalibration,
  calI, calSpec, calUv,
  xMin, xMax, xLen, xAr,           \* the graph windows uvX, rX, oX, yX, gX, bX, vX
  observed,             \* graphColor() calls made on each window since boot
  lastWrite,            \* lowest and highest index the last call wrote in xAr
  seen,                 \* smallest and largest measurement each window was given since boot
  timeAverages,         \* timeAverages[6][10], each slot as the readings added to it
                        \* and the divisions by 10 made on it since boot
  sampleCounter, averageIndex,
  configFile,           \* config.csv on the card
  loaded,               \* what loadConfig() did at the last boot
  chan,                 \* the serial channel to the OpenLog
  parse,                \* checkHeader() and readConfigData(): their locals
  press                 \* the select button as the reads of its pin show it

vars == << build, intMul, scen, pc, currentMenu, currentSelection,
           histSelect, histSwitch, button_pressed, heldBursts,
           runs, historicSelectState, n,
           current_time, past_time, datalen, x2, xy, initial, initialTaken,
           specReadings, uvReading, slopes, accepted, bursts, exitBy,
           logHeader, logRows, logSent,
           index, calibration, uvCalibration, calI, calSpec, calUv,
           xMin, xMax, xLen, xAr, observed, lastWrite, seen,
           timeAverages, sampleCounter, averageIndex,
           configFile, loaded, chan, parse, press >>

----------------------------------------------------------------------------
(* Bounds of the model *)

MaxRuns == 2
MaxIter == 62

----------------------------------------------------------------------------
(* Program constants *)

maxlen == 50
ms_time == 300000 \div maxlen
time_resolution_multiplier == 1000
BasicCeiling == 5
AdvancedCeilingMinutes == 60
BurstPolls == 80
CalSamples == 20
NumChannels == 6

Channels == 1..NumChannels
Levels == {0, 1}

Wrap16(v) == ((v + 32768) % 65536) - 32768
Wrap8(v) == ((v + 128) % 256) - 128

\* int signal_resolution_multiplier = 1000000 on a 16-bit int
signal_resolution_multiplier == Wrap16(1000000)

----------------------------------------------------------------------------
(* Wide numbers: exact sums of products *)

Base == 10000
WZero == << 0, 0, 0, 0 >>

WNorm(s) ==
  LET t2 == s[2] + (s[1] \div Base)
      t3 == s[3] + (t2 \div Base)
      t4 == s[4] + (t3 \div Base)
  IN  << s[1] % Base, t2 % Base, t3 % Base, t4 >>

WAdd(u, v) == WNorm(<< u[1] + v[1], u[2] + v[2], u[3] + v[3], u[4] + v[4] >>)

\* a * b for |a|, |b| < Base * Base
WMul(a, b) ==
  LET a0 == a % Base
      a1 == a \div Base
      b0 == b % Base
      b1 == b \div Base
  IN  WNorm(<< a0 * b0, a1 * b0 + a0 * b1, a1 * b1, 0 >>)

WFromInt(a) == WNorm(<< a, 0, 0, 0 >>)
WSign(w) == IF w = WZero THEN 0 ELSE IF w[4] < 0 THEN -1 ELSE 1

(* A float is a record [k, v]: k = "fin" with the value v, or k = "nan",     *)
(* "pinf", "ninf" (v = 0) for the IEEE results of a division by zero.       *)
Fin(v) == [k |-> "fin", v |-> v]
NonFin(kind, zero) == [k |-> kind, v |-> zero]

\* a / b in IEEE arithmetic, a and b integers
FDiv(a, b) ==
  IF b = 0
  THEN NonFin(IF a = 0 THEN "nan" ELSE IF a > 0 THEN "pinf" ELSE "ninf", 0)
  ELSE Fin(a \div b)

\* f - c for an integer c
FSubInt(f, c) == IF f.k = "fin" THEN Fin(f.v - c) ELSE f

\* f * x for a finite x > 0, as a Wide float
FMulX(f, x) == IF f.k = "fin" THEN Fin(WMul(f.v, x)) ELSE NonFin(f.k, WZero)

\* acc + t on Wide floats
FAdd(acc, t) ==
  IF acc.k = "fin" /\ t.k = "fin" THEN Fin(WAdd(acc.v, t.v))
  ELSE IF acc.k = "nan" \/ t.k = "nan" THEN NonFin("nan", WZero)
  ELSE IF acc.k = "fin" THEN t
  ELSE IF t.k = "fin" \/ t.k = acc.k THEN acc
  ELSE NonFin("nan", WZero)

\* num / den for a Wide float num and a Wide den >= 0: the quotient is kept
\* as the pair (num, den)
FDivW(num, den) ==
  IF num.k # "fin" THEN [k |-> num.k, num |-> WZero, den |-> den]
  ELSE IF den = WZero
       THEN [k |-> IF WSign(num.v) = 0 THEN "nan"
                   ELSE IF WSign(num.v) > 0 THEN "pinf" ELSE "ninf",
             num |-> num.v, den |-> den]
       ELSE [k |-> "fin", num |-> num.v, den |-> den]

----------------------------------------------------------------------------
(* The environment: instants and readings of the samples of a session *)

\* "ramp": every channel starts at 100 and varies; "dark": channel 1 starts
\* at 0 and channel 2 reads 0 throughout
Profiles == {"ramp", "dark"}

\* first: elapsed ms at the first sample (at least the 250 ms of delays, in
\* the advanced sketch 345 ms); step: the period of the later samples
Scenarios(b) ==
  IF b = "basic"
  THEN { [first |-> 270, step |-> 1500, prof |-> "ramp"],
         [first |-> 360, step |-> 60000, prof |-> "dark"] }
  ELSE { [first |-> 360, step |-> 60000, prof |-> "ramp"],
         [first |-> 360, step |-> 1500, prof |-> "dark"] }

\* iterations in whose burst the select level is let rise
AbortIters == {0, 3}

\* iterations before whose burst the button, held at session start, is let
\* go and pressed again; the press is then held for at most two bursts
PressIters == {1}

\* millis() - start_time at iteration k of a session
Time(k) == IF k = 0 THEN scen.first ELSE k * scen.step

\* getCalibratedRed() .. getCalibratedViolet() at iteration k
Reading(k) ==
  [i \in Channels |->
     CASE scen.prof = "dark" /\ i = 1 /\ k = 0 -> 0
       [] scen.prof = "dark" /\ i = 2 -> 0
       [] OTHER -> 100 + 10 * i * (k % 4)]

\* analogRead(uvSensorPin) at iteration k
UvReading(k) == IF scen.prof = "dark" THEN 5 * (k % 2) ELSE 40 + 5 * (k % 3)

ZeroVec == [i \in Channels |-> 0]
FZeroVec == [i \in Channels |-> Fin(WZero)]
NoSlopes == [i \in Channels |-> [k |-> "none", num |-> WZero, den |-> WZero]]

----------------------------------------------------------------------------
(* measuringMenu1(): the tests and the accumulators *)

\* current_time / (60000.0 / time_resolution_multiplier)
TotalMinutes(ct) == ct \div (60000 \div time_resolution_multiplier)

\* int8_t current_time_minutes = (current_time / 1000) / 60
WholeMinutes(ct) == Wrap8((ct \div 1000) \div 60)

\* datalen * ms_time, an int product
Product(dl) == IF intMul = "wrap16" THEN Wrap16(dl * ms_time) ELSE dl * ms_time

\* (a - b) > m where a is unsigned long, b an int converted to unsigned long:
\* a difference below zero wraps to a value near 2^32
UGreater(a, b, m) == IF a - b < 0 THEN TRUE ELSE a - b > m

AcceptBasic(ct, past, dl) == dl < maxlen /\ ct - past > ms_time

\* AcceptAdvanced without the cap on datalen
AcceptAdvancedUncapped(ct, dl) == UGreater(ct, Product(dl), ms_time)

AcceptAdvanced(ct, dl) == dl < maxlen /\ UGreater(ct, Product(dl), ms_time)

Accept(ct, past, dl) ==
  IF build = "basic" THEN AcceptBasic(ct, past, dl) ELSE AcceptAdvanced(ct, dl)

\* x2 += x * x
AccumulateX2(acc, x) == WAdd(acc, WMul(x, x))

\* AccumulateXY without the offset of the normalised reading
AccumulateXYNoOffset(acc, r, init, x) ==
  [i \in Channels |->
     FAdd(acc[i], FMulX(FDiv(signal_resolution_multiplier * r[i], init[i]), x))]

\* xy[i] += (((signal_resolution_multiplier * specReadings[i]) / initial[i]) - 1) * x
AccumulateXY(acc, r, init, x) ==
  [i \in Channels |->
     FAdd(acc[i],
          FMulX(FSubInt(FDiv(signal_resolution_multiplier * r[i], init[i]), 1), x))]

\* slopes[i] = xy[i] / x2
processSlopes(sxy, sx2) == [i \in Channels |-> FDivW(sxy[i], sx2)]

\* TimeUp with the ceiling itself not counted as reached
TimeUpStrict(ct) ==
  IF build = "basic"
  THEN ct * time_resolution_multiplier > BasicCeiling * 60000
  ELSE WholeMinutes(ct) > AdvancedCeilingMinutes

\* the time test that ends the loop
TimeUp(ct) ==
  IF build = "basic"
  THEN ct * time_resolution_multiplier >= BasicCeiling * 60000
  ELSE WholeMinutes(ct) >= AdvancedCeilingMinutes

----------------------------------------------------------------------------
(* graphColor(): the graph windows, in the order measuringMenu1() draws     *)
(* them: uv, red, orange, yellow, green, blue, violet                       *)

GraphChannels == 1..7
GraphW == << 94, 46, 47, 46, 47, 46, 47 >>
GraphH == << 25, 18, 18, 17, 17, 17, 17 >>
ArraySize == << 95, 46, 47, 46, 47, 46, 47 >>

Abs(a) == IF a < 0 THEN 0 - a ELSE a

\* float to int conversion of a / b: truncation toward zero
TruncQ(a, b) ==
  IF (a >= 0) = (b > 0) THEN Abs(a) \div Abs(b) ELSE 0 - (Abs(a) \div Abs(b))

\* calculateGraphPosition with the quotient rounded to the nearest integer
calculateGraphPositionRounded(minX, maxX, height, measurement) ==
  IF minX # maxX
  THEN (2 * (measurement - minX) * height + (maxX - minX)) \div (2 * (maxX - minX))
  ELSE 0

\* return ((measurement - minX) / (maxX - minX)) * height, or 0
calculateGraphPosition(minX, maxX, height, measurement) ==
  IF minX # maxX
  THEN TruncQ((measurement - minX) * height, maxX - minX)
  ELSE 0

\* xAr[idx] = v; a write outside the array leaves the array as it is
Store(ar, idx, v) == IF idx \in DOMAIN ar THEN [ar EXCEPT ![idx] = v] ELSE ar

\* HasRoom with the window counted as having room when it is full
HasRoomInclusive(len, w) == len <= w

\* if (*xLen < w)
HasRoom(len, w) == len < w

\* for (i = 1; i < *xLen-1; i++) xAr[i-1] = xAr[i];
Shifted(ar, len) ==
  [j \in DOMAIN ar |-> IF j <= len - 3 /\ (j + 1) \in DOMAIN ar THEN ar[j + 1] ELSE ar[j]]

\* one call graphColor(.., w, h, &xMin, &xMax, &xLen, measurement, .., xAr)
\* on the window st = [min, max, len, ar]
graphColor(w, h, st, measurement) ==
  LET newMax == IF measurement > st.max \/ st.max = 0 - 1 THEN measurement ELSE st.max
      newMin == IF measurement < st.min \/ st.min = 0 - 1 THEN measurement ELSE st.min
      result == Wrap8(calculateGraphPosition(newMin, newMax, h - 1, measurement))
  IN  IF HasRoom(st.len, w)
      THEN [min |-> newMin, max |-> newMax,
            len |-> Wrap8(st.len + 1),
            ar |-> Store(st.ar, st.len, result),
            lo |-> st.len, hi |-> st.len]
      ELSE [min |-> newMin, max |-> newMax,
            len |-> st.len,
            ar |-> Store(Shifted(st.ar, st.len), w - 1, result),
            lo |-> IF st.len >= 3 THEN 0 ELSE w - 1, hi |-> w - 1]

\* the smallest and the largest of the measurements given so far, after one
\* more; k measurements came before
Extent(e, k, measurement) ==
  IF k = 0 THEN [min |-> measurement, max |-> measurement]
  ELSE [min |-> IF measurement < e.min THEN measurement ELSE e.min,
        max |-> IF measurement > e.max THEN measurement ELSE e.max]

\* the measurement each window plots
Plotted(c, uv, r) == IF c = 1 THEN uv ELSE r[c - 1]

----------------------------------------------------------------------------
(* checkForButtonPress(): one burst of polls over the levels tr[1..80] *)

TogglePolls == {0, 2, 80}

\* the level at each poll: l0, flipped from poll t on (t = 0: never)
Trace(l0, t) == [i \in 1..BurstPolls |-> IF t = 0 \/ i < t THEN l0 ELSE 1 - l0]

\* the level historicSelectState holds when poll i reads the pin
HistoricAt(i, hist, tr) == IF i = 1 THEN hist ELSE tr[i - 1]

\* for (i = 0; i < 80; i++) { delay(5); selectState = digitalRead(selectPin);
\*   if (selectState == 1 && historicSelectState == 0) return true;
\*   historicSelectState = selectState; } return false;
checkForButtonPress(hist, tr) ==
  \E i \in 1..BurstPolls : tr[i] = 1 /\ HistoricAt(i, hist, tr) = 0

\* the polls a burst makes: up to the first rising edge, or all of them
PollsMade(hist, tr) ==
  IF checkForButtonPress(hist, tr)
  THEN CHOOSE i \in 1..BurstPolls :
         /\ tr[i] = 1 /\ HistoricAt(i, hist, tr) = 0
         /\ \A j \in 1..(i - 1) : ~(tr[j] = 1 /\ HistoricAt(j, hist, tr) = 0)
  ELSE BurstPolls

----------------------------------------------------------------------------
(* The select button as the program reads it.  held: every read of the pin *)
(* since the rising edge that last caused a transition returned 1, so the   *)
(* press that caused it has not been let go; again: a rising edge caused a  *)
(* transition while held                                                    *)

NoPress == [held |-> FALSE, again |-> FALSE]

\* a read of the pin that returns the level s and causes nothing
Read(pr, s) == [pr EXCEPT !.held = pr.held /\ s = 1]

\* a read of the pin that is taken for a rising edge
Acted(pr) == [held |-> TRUE, again |-> pr.again \/ pr.held]

\* the reads of one burst over the levels tr, fresh as in Burst
BurstReads(pr, hist, tr, fresh) ==
  LET before == [pr EXCEPT !.held = pr.held /\ ~fresh]
      quiet(k) == [before EXCEPT !.held = before.held /\ \A j \in 1..k : tr[j] = 1]
  IN  IF checkForButtonPress(hist, tr)
      THEN Acted(quiet(PollsMade(hist, tr) - 1))
      ELSE quiet(BurstPolls)

----------------------------------------------------------------------------
(* calibrationMenu(): readings and reduction *)

\* values an uninitialised int may hold
UninitInts == {0, 1234}

CalReading(k) ==
  [i \in Channels |->
     CASE scen.prof = "dark" /\ i = 1 -> 0 - 3 - (k % 2)
       [] scen.prof = "dark" /\ i = 2 -> 0
       [] OTHER -> 100 + i + (k % 2)]

\* C integer division, truncating toward zero
TruncDiv(a, b) == IF a >= 0 THEN a \div b ELSE 0 - ((0 - a) \div b)

\* CalAverage without the clamp
CalAverageUnclamped(sum) == 5 * sum

\* calibration[i] = specReadings[i] / 20, clamped at 0; the value is kept in
\* hundredths (sum / 20 = 5 * sum / 100)
CalAverage(sum) == IF 5 * sum < 0 THEN 0 ELSE 5 * sum

----------------------------------------------------------------------------
(* updateTimeAverages() *)

\* float timeAverages[6][10]: the second index
Slots == 0..9
EmptySlot == [adds |-> 0, divs |-> 0]

\* updateTimeAverages(reading, channel) on st = [grid, counter, idx]:
\* timeAverages[channel][averageIndex] += reading; sampleCounter++;
\* if (sampleCounter >= 10) { timeAverages[channel][averageIndex] /= 10;
\*   averageIndex = (averageIndex + 1) % 10; sampleCounter = 0; }
updateTimeAverages(st, channel) ==
  LET added == [st.grid EXCEPT ![channel][st.idx].adds = @ + 1]
      count == Wrap16(st.counter + 1)
  IN  IF count >= 10
      THEN [grid |-> [added EXCEPT ![channel][st.idx].divs = @ + 1],
            counter |-> 0, idx |-> (st.idx + 1) % 10]
      ELSE [grid |-> added, counter |-> count, idx |-> st.idx]

\* for (i = 0; i < 6; i++) { ...; updateTimeAverages(specReadings[i], i); }
RECURSIVE UpdateAll(_, _)
UpdateAll(st, channel) ==
  IF channel > NumChannels THEN st
  ELSE UpdateAll(updateTimeAverages(st, channel), channel + 1)

----------------------------------------------------------------------------
(* The configuration file: text as sequences of one-character strings *)

\* #define configHeader "index,r,o,y,g,b,v,uv"
configHeader ==
  << "i", "n", "d", "e", "x", ",", "r", ",", "o", ",", "y", ",", "g", ",",
     "b", ",", "v", ",", "u", "v" >>
headerlen == 20

DigitChars == << "0", "1", "2", "3", "4", "5", "6", "7", "8", "9" >>
IsDigit(c) == \E d \in 1..10 : DigitChars[d] = c
DigitValue(c) == (CHOOSE d \in 1..10 : DigitChars[d] = c) - 1

\* Print::printNumber: the decimal digits of v >= 0
RECURSIVE PrintNat(_)
PrintNat(v) ==
  IF v < 10 THEN << DigitChars[v + 1] >>
  ELSE Append(PrintNat(v \div 10), DigitChars[(v % 10) + 1])

\* OpenLog.print(int)
PrintInt(v) == IF v < 0 THEN << "-" >> \o PrintNat(0 - v) ELSE PrintNat(v)

\* OpenLog.print(float): two decimals; h is the value in hundredths
PrintFloat2(h) ==
  LET a == IF h < 0 THEN 0 - h ELSE h
  IN  (IF h < 0 THEN << "-" >> ELSE << >>)
      \o PrintNat(a \div 100)
      \o << ".", DigitChars[((a \div 10) % 10) + 1], DigitChars[(a % 10) + 1] >>

\* the digits of f from position p on, up to the first character that is no
\* digit
DigitRun(f, p) ==
  LET stop == IF \E q \in p..Len(f) : ~IsDigit(f[q])
              THEN CHOOSE q \in p..Len(f) :
                     ~IsDigit(f[q]) /\ \A r \in p..(q - 1) : IsDigit(f[r])
              ELSE Len(f) + 1
  IN  SubSeq(f, p, stop - 1)

\* the number a run of digits denotes
RECURSIVE NatOf(_)
NatOf(ds) ==
  IF ds = << >> THEN 0
  ELSE 10 * NatOf(SubSeq(ds, 1, Len(ds) - 1)) + DigitValue(ds[Len(ds)])

\* atoi(ar): optional sign, then digits
atoi(f) ==
  LET neg == Len(f) > 0 /\ f[1] = "-"
      ds == DigitRun(f, IF neg THEN 2 ELSE 1)
  IN  IF neg THEN 0 - NatOf(ds) ELSE NatOf(ds)

\* atof(ar), in hundredths: optional sign, digits, and after a point the
\* first two decimals
atof(f) ==
  LET neg == Len(f) > 0 /\ f[1] = "-"
      p == IF neg THEN 2 ELSE 1
      ip == DigitRun(f, p)
      q == p + Len(ip)
      fr == IF q <= Len(f) /\ f[q] = "." THEN DigitRun(f, q + 1) ELSE << >>
      d1 == IF Len(fr) >= 1 THEN DigitValue(fr[1]) ELSE 0
      d2 == IF Len(fr) >= 2 THEN DigitValue(fr[2]) ELSE 0
      a == 100 * NatOf(ip) + 10 * d1 + d2
  IN  IF neg THEN 0 - a ELSE a

\* index++ in both sketches
NextIndexBoth(idx) == idx + 1

\* measuringMenu1(): sprintf(sampleName, "LOG%d.CSV", index++) in the
\* advanced sketch; the basic sketch logs to LOG.CSV and leaves index alone
NextIndex(idx) == IF build = "advanced" THEN idx + 1 ELSE idx

\* a profile: the globals index, calibration[6], uvCalibration
Profile(idx, cal, uv) == [index |-> idx, calibration |-> cal, uvCalibration |-> uv]
DefaultProfile == Profile(0, ZeroVec, 0)

\* writeConfig(): the data row printed for a profile
RECURSIVE PrintBaselines(_, _)
PrintBaselines(cal, i) ==
  IF i > NumChannels THEN << >>
  ELSE << "," >> \o PrintFloat2(cal[i]) \o PrintBaselines(cal, i + 1)

ConfigRow(pr) ==
  PrintInt(pr.index) \o PrintBaselines(pr.calibration, 1)
    \o << "," >> \o PrintInt(pr.uvCalibration)

\* the lines writeConfig() leaves in the file
WrittenFile(pr) == << configHeader, ConfigRow(pr) >>

----------------------------------------------------------------------------
(* The serial channel to the OpenLog.  The device answers every command    *)
(* line with a prompt: '>' after rm, new, read (after the file's content)   *)
(* and after an empty line, '<' on entering write or append mode, and '>'   *)
(* after the three 0x1A bytes that end an append session or enter command   *)
(* mode.  rx holds the prompts the sketch has not read: ch the byte, own    *)
(* whether it answers the line sent last, src what it answers.              *)

\* SoftwareSerial keeps 64 received bytes; later ones are dropped
RxBufferSize == 64

\* the channel as a handler finds it: rx, entryRead (the '<' of the open
\* write or append session was read), ready (command mode is entered and the
\* '>' that says so was read), and what has happened on it so far: stale (a
\* wait ended on a byte that did not answer the line sent last), early
\* (payload went out with the entry prompt unread), unconf (a command line
\* went out with command mode unconfirmed), blocked (a wait found no byte)
Channel(rx_, entryRead_, ready_, stale_, early_, unconf_) ==
  [rx |-> rx_, entryRead |-> entryRead_, ready |-> ready_,
   stale |-> stale_, early |-> early_, unconf |-> unconf_, blocked |-> FALSE,
   alive |-> TRUE]

\* the device's answer arrives: the bytes in rx now answer an older line
Receive(q, c, what) ==
  LET old == [i \in DOMAIN q |-> [q[i] EXCEPT !.own = FALSE]]
  IN  IF Len(old) < RxBufferSize
      THEN Append(old, [ch |-> c, own |-> TRUE, src |-> what])
      ELSE old

\* what a line sent leaves in rx: the answer of a device that is alive, and
\* nothing new when the device has stopped answering
Answer(st, c, what) ==
  IF st.alive THEN Receive(st.rx, c, what)
  ELSE [i \in DOMAIN st.rx |-> [st.rx[i] EXCEPT !.own = FALSE]]

\* OpenLog.print(command); print(" "); print(filename); write(13)
CmdLine(answer) == [op |-> "cmd", ch |-> answer]
\* payload bytes of a write or append session
Payload == [op |-> "payload", ch |-> ""]
\* OpenLog.write(26) three times
End3 == [op |-> "end3", ch |-> ">"]
\* OpenLog.write('\r') on an empty line
EmptyLine == [op |-> "cr", ch |-> ">"]
\* waitForChar(c)
Wait(c) == [op |-> "wait", ch |-> c]
\* OpenLog.read() in checkHeader() reads the prompt that ends the reply
Take == [op |-> "take", ch |-> ">"]

\* Step with a wait that gives up when no byte is there
StepGivesUp(st, o) ==
  CASE o.op = "cmd" ->
         [st EXCEPT !.rx = Answer(st, o.ch, "cmd"),
                    !.unconf = st.unconf \/ ~st.ready,
                    !.entryRead = FALSE]
    [] o.op = "end3" ->
         [st EXCEPT !.rx = Answer(st, o.ch, "end"), !.ready = FALSE]
    [] o.op = "wait" ->
         [st EXCEPT !.rx = IF \E i \in DOMAIN st.rx : st.rx[i].ch = o.ch
                           THEN Tail(st.rx) ELSE st.rx]
    [] OTHER -> st

\* one operation on the channel
Step(st, o) ==
  CASE o.op = "cmd" ->
         [st EXCEPT !.rx = Answer(st, o.ch, "cmd"),
                    !.unconf = st.unconf \/ ~st.ready,
                    !.entryRead = FALSE]
    [] o.op = "payload" ->
         [st EXCEPT !.early = st.early \/ ~st.entryRead]
    [] o.op = "end3" ->
         [st EXCEPT !.rx = Answer(st, o.ch, "end"), !.ready = FALSE]
    [] o.op = "cr" ->
         [st EXCEPT !.rx = Answer(st, o.ch, "cr")]
    [] o.op = "take" ->
         [st EXCEPT !.rx = SubSeq(st.rx, 1, Len(st.rx) - 1)]
    [] o.op = "wait" ->
         IF \E i \in DOMAIN st.rx : st.rx[i].ch = o.ch
         THEN LET i == CHOOSE j \in DOMAIN st.rx :
                         st.rx[j].ch = o.ch
                         /\ \A k \in 1..(j - 1) : st.rx[k].ch # o.ch
                  rest == SubSeq(st.rx, i + 1, Len(st.rx))
              IN  [st EXCEPT
                     !.rx = rest,
                     !.stale = st.stale \/ ~st.rx[i].own,
                     !.entryRead = st.entryRead \/ (o.ch = "<" /\ st.rx[i].own),
                     !.ready = st.ready
                               \/ (st.rx[i].src = "end"
                                   /\ \A k \in DOMAIN rest : rest[k].src # "end")]
         ELSE [st EXCEPT !.blocked = TRUE]

\* the operations of a handler, in order
RECURSIVE Run(_, _)
Run(st, ops) ==
  IF ops = << >> \/ st.blocked THEN st ELSE Run(Step(st, Head(ops)), Tail(ops))

\* gotoCommandMode()
gotoCommandMode == << End3, Wait(">") >>

\* sdCommand(command, filename, confirmation) / sendSDCommand(..)
sdCommand(answer, confirmation) == << CmdLine(answer), Wait(confirmation) >>

\* writeFile(filename): rm, new, write
writeFile == sdCommand(">", ">") \o sdCommand(">", ">") \o sdCommand("<", "<")

\* writeConfig(): writeFile, the header and the row, an empty line, the wait
writeConfig == writeFile \o << Payload, EmptyLine, Wait(">") >>

\* an append session: the command, the payload, three 0x1A, and no wait
AppendSession == << CmdLine("<"), Payload, End3 >>

\* startNewLog() in the basic sketch; lines 204-221 of measuringMenu1() in
\* the advanced one
startNewLog ==
  IF build = "basic"
  THEN sdCommand(">", ">") \o sdCommand(">", ">") \o AppendSession
  ELSE writeConfig \o sdCommand(">", ">") \o sdCommand(">", ">") \o AppendSession

\* logData(), or lines 279-301 of the advanced measuringMenu1()
logData == AppendSession

\* OpenLog.print(F("time,red,orange,yellow,green,blue,violet,uv"))
logHeaderLine == [kind |-> "header", time |-> 0, readings |-> ZeroVec, uv |-> 0]

\* the row with the time and the readings of the sample before
logRowPast(ct, r, uv) ==
  [kind |-> "row", time |-> current_time, readings |-> specReadings,
   uv |-> uvReading]

\* logData(current_time, specReadings, uvReading): the row printed
logRow(ct, r, uv) == [kind |-> "row", time |-> ct, readings |-> r, uv |-> uv]

\* after the loop: the advanced sketch sends a carriage return
EndLog == IF build = "advanced" THEN << EmptyLine >> ELSE << >>

\* calibrationMenu() after the averages: writeConfig(), '\r', waitForChar('>')
SaveCalibration == writeConfig \o << EmptyLine, Wait(">") >>

\* the channel at power-up: the device announces itself with "12<"
PowerUp ==
  Channel(<< [ch |-> "<", own |-> TRUE, src |-> "boot"] >>,
          FALSE, FALSE, FALSE, FALSE, FALSE)

\* setup(): setupSD(), gotoCommandMode(), loadConfig(); ok and taken are what
\* checkHeader() found
setup(ok, taken) ==
  << Wait("<") >> \o gotoCommandMode \o << CmdLine(">") >>
    \o (IF taken THEN << Take >> ELSE << >>)
    \o (IF ok THEN << Wait(">") >> ELSE writeConfig)

----------------------------------------------------------------------------
(* The configuration file on the card, and loadConfig() *)

\* the file config.csv: there or not, and its lines
File(ls) == [exists |-> TRUE, lines |-> ls]
NoFile == [exists |-> FALSE, lines |-> << >>]
EmptyFile == File(<< >>)

\* the device sends the lines of the file, a carriage return after each
RECURSIVE Flatten(_)
Flatten(ls) ==
  IF ls = << >> THEN << >> ELSE Head(ls) \o << "\r" >> \o Flatten(Tail(ls))

\* what follows the "\r\n" that checkHeader() waits for: the content and the
\* prompt, or for a file that is not there what the device says instead
MissReplies == { << ">" >>, << "!", ">" >> }
ReadReply(file, miss) ==
  IF file.exists THEN Flatten(file.lines) \o << ">" >> ELSE miss

\* checkHeader() with every mismatch taken for a match: header is compared
\* by length only
RECURSIVE checkHeaderAnyByte(_, _)
checkHeaderAnyByte(s, p) ==
  IF p > Len(s) THEN [ok |-> FALSE, used |-> p - 1]
  ELSE IF p = headerlen THEN [ok |-> TRUE, used |-> p]
  ELSE checkHeaderAnyByte(s, p + 1)

\* checkHeader(configHeader, 20) on the bytes s from filePosition p - 1 on:
\* whether it returned true, and how many bytes it read
RECURSIVE checkHeader(_, _)
checkHeader(s, p) ==
  IF p > Len(s) THEN [ok |-> FALSE, used |-> p - 1]
  ELSE IF s[p] = configHeader[p]
       THEN IF p = headerlen THEN [ok |-> TRUE, used |-> p]
            ELSE checkHeader(s, p + 1)
       ELSE [ok |-> FALSE, used |-> p]

IsLineEnd(c) == c = "\r" \/ c = "\n"

\* updateGlobalConfig(len, ar, config_index) with the baselines one position
\* late
updateGlobalConfigShifted(pr, ar, config_index) ==
  IF config_index = 0 THEN [pr EXCEPT !.index = atoi(ar)]
  ELSE IF config_index > 1 /\ config_index < 8
       THEN [pr EXCEPT !.calibration[config_index - 1] = atof(ar)]
  ELSE pr

\* updateGlobalConfig(len, ar, config_index)
updateGlobalConfig(pr, ar, config_index) ==
  IF config_index = 0 THEN [pr EXCEPT !.index = atoi(ar)]
  ELSE IF config_index > 0 /\ config_index < 7
       THEN [pr EXCEPT !.calibration[config_index] = atof(ar)]
  ELSE IF config_index = 7 THEN [pr EXCEPT !.uvCalibration = atoi(ar)]
  ELSE pr

\* the fields of a row, each handed to updateGlobalConfig() in turn
RECURSIVE StoreFields(_, _, _, _)
StoreFields(pr, row, commas, k) ==
  LET K == Cardinality(commas)
      comma(j) == CHOOSE q \in commas : Cardinality({r \in commas : r < q}) = j - 1
      from == IF k = 0 THEN 1 ELSE comma(k) + 1
      to == IF k = K THEN Len(row) ELSE comma(k + 1) - 1
  IN  IF k > K THEN pr
      ELSE StoreFields(updateGlobalConfig(pr, SubSeq(row, from, to), k),
                       row, commas, k + 1)

\* char dataBuf[dataBufLen]
dataBufLen == 10

\* the highest index of dataBuf that readConfigData() writes for the row:
\* the first real character goes to dataBuf[0], every further character of a
\* field to dataBuf[nData++] with no test of nData, and the terminator to
\* dataBuf[nData] when the comma or the line end comes, so a field of L
\* characters writes the indices 0..L
Top(row, commas) ==
  LET marks == commas \cup {0, Len(row) + 1}
      after(q) == CHOOSE r \in marks : r > q /\ \A t \in marks : t > q => r <= t
      lens == { after(q) - q - 1 : q \in marks \ {Len(row) + 1} }
  IN  CHOOSE m \in lens : \A l \in lens : l <= m

\* readConfigData() on the bytes s that follow the header: the first real
\* character opens the row, a comma ends a field, a line end ends the row.
\* hung: the row has no end, so the final waitForChar('>') finds the prompt
\* already read
readConfigData(pr, s) ==
  LET real == {q \in DOMAIN s : ~IsLineEnd(s[q])}
      start == CHOOSE q \in real : \A r \in real : q <= r
      ends == {q \in DOMAIN s : q > start /\ IsLineEnd(s[q])}
      term == CHOOSE q \in ends : \A r \in ends : q <= r
      row == SubSeq(s, start, term - 1)
      commas == {q \in 2..Len(row) : row[q] = ","}
  IN  IF real = {} \/ ends = {}
      THEN [hung |-> TRUE, profile |-> pr, top |-> 0]
      ELSE [hung |-> FALSE, profile |-> StoreFields(pr, row, commas, 0),
            top |-> Top(row, commas)]

\* loadConfig() on what the device sends for the file: ok, checkHeader()
\* returned true; taken, the prompt that ends the reply was read by
\* checkHeader() as the byte that did not match
loadConfig(pr, file, miss) ==
  LET s == ReadReply(file, miss)
      h == checkHeader(s, 1)
      d == readConfigData(pr, SubSeq(s, h.used + 1, Len(s)))
  IN  [ok |-> h.ok,
       taken |-> ~h.ok /\ h.used >= 1 /\ s[h.used] = ">",
       hung |-> h.ok /\ d.hung,
       profile |-> IF h.ok THEN d.profile ELSE pr,
       top |-> IF h.ok THEN d.top ELSE 0 - 1]

\* checkHeader() read by read. OpenLog.read() gives the next byte of the
\* stream, or -1 when none has arrived; the loop condition (char) c > 0 takes
\* only a byte of value 1..127 for data
Patience == 1000
NonPositive == {"NUL", "0xFF"}

\* the locals before checkHeader() is called
NoParse ==
  [stream |-> << >>, filePosition |-> 0, timeOut |-> 0, outcome |-> "none",
   lateByte |-> FALSE, top |-> 0 - 1]

\* the while loop is left: delay(1), timeOut++, and the test timeOut < 1000
EndPoll(p) ==
  [p EXCEPT !.timeOut = p.timeOut + 1,
            !.outcome = IF p.timeOut + 1 < Patience THEN "comparing"
                        ELSE "false"]

\* the body of the while loop on the byte c
Compare(p, c) ==
  IF c = configHeader[p.filePosition + 1]
  THEN IF p.filePosition = headerlen - 1
       THEN [p EXCEPT !.outcome = "true"]
       ELSE [p EXCEPT !.filePosition = p.filePosition + 1, !.timeOut = 0]
  ELSE [p EXCEPT !.outcome = "false"]

----------------------------------------------------------------------------
(* Initial state: setup() has run and the home menu is shown *)

Init ==
  /\ build \in {"basic", "advanced"}
  /\ intMul \in (IF build = "basic" THEN {"wrap16"} ELSE {"wrap16", "exact"})
  /\ scen \in Scenarios(build)
  /\ pc = "loop"
  /\ currentMenu = 0 /\ currentSelection = 0
  /\ histSelect = 0 /\ histSwitch = 0
  /\ button_pressed = 0 - 1
  /\ heldBursts = 0
  /\ runs = 0
  /\ historicSelectState = 0 /\ n = 0
  /\ current_time = 0 /\ past_time = 0 /\ datalen = 0
  /\ x2 = WZero /\ xy = FZeroVec
  /\ initial = ZeroVec /\ initialTaken = FALSE
  /\ specReadings = ZeroVec /\ uvReading = 0
  /\ slopes = NoSlopes /\ accepted = << >>
  /\ bursts = 0 /\ exitBy = "none"
  /\ logHeader = FALSE /\ logRows = 0 /\ logSent = << >>
  /\ index = 0 /\ calibration = ZeroVec /\ uvCalibration = 0
  /\ calI = 0 /\ calSpec = ZeroVec /\ calUv = 0
  /\ xMin = [c \in GraphChannels |-> 0 - 1]
  /\ xMax = [c \in GraphChannels |-> 0 - 1]
  /\ xLen = [c \in GraphChannels |-> 0]
  /\ xAr = [c \in GraphChannels |-> [j \in 0..(ArraySize[c] - 1) |-> 0]]
  /\ observed = 0
  /\ lastWrite = [c \in GraphChannels |-> [lo |-> 0, hi |-> 0]]
  /\ seen = [c \in GraphChannels |-> [min |-> 0, max |-> 0]]
  /\ timeAverages = [ch \in Channels |-> [i \in Slots |-> EmptySlot]]
  /\ sampleCounter = 0 /\ averageIndex = 0
  /\ configFile = File(WrittenFile(DefaultProfile))
  /\ loaded = "parsed"
  /\ press = NoPress
  /\ chan = Run(PowerUp, setup(TRUE, FALSE))
  /\ parse = [NoParse EXCEPT !.top = loadConfig(DefaultProfile, configFile,
                                                << ">" >>).top]

menuVars == << currentMenu, currentSelection >>
buttonVars == << histSelect, histSwitch >>
pollVars == << histSelect, histSwitch, button_pressed >>
bootVars == << build, intMul, scen >>
sessionVars == << historicSelectState, n, current_time, past_time, datalen,
                  x2, xy, initial, initialTaken, specReadings, uvReading,
                  slopes, accepted, bursts, exitBy >>
logVars == << logHeader, logRows, logSent >>
profileVars == << index, calibration, uvCalibration >>
calVars == << calI, calSpec, calUv >>
graphVars == << xMin, xMax, xLen, xAr, observed, lastWrite, seen >>
sdVars == << configFile, loaded, chan >>
avgVars == << timeAverages, sampleCounter, averageIndex >>

----------------------------------------------------------------------------
(* buttons(): edge detection on a 20 ms poll *)

\* buttons() with historicSelectState starting at 0 instead of the level read
EnterButtonsFromLow(s, w) ==
  /\ pc = "loop"
  /\ histSelect' = 0 /\ histSwitch' = w
  /\ pc' = "poll"
  /\ UNCHANGED << bootVars, button_pressed, menuVars, heldBursts, runs,
                  sessionVars, logVars, profileVars, calVars, graphVars, sdVars,
                  avgVars, parse, press >>

\* historicSelectState = digitalRead(selectPin); historicSwitchState = ...
EnterButtons(s, w) ==
  /\ pc = "loop"
  /\ histSelect' = s /\ histSwitch' = w
  /\ pc' = "poll"
  /\ press' = Read(press, s)
  /\ UNCHANGED << bootVars, button_pressed, menuVars, heldBursts, runs,
                  sessionVars, logVars, profileVars, calVars, graphVars, sdVars,
                  avgVars, parse >>

SelectEdge(s) == s = 1 /\ histSelect = 0
SwitchEdge(w) == w = 1 /\ histSwitch = 0

\* a poll that sees no rising edge
PollIdle(s, w) ==
  /\ pc = "poll"
  /\ ~SelectEdge(s) /\ ~SwitchEdge(w)
  /\ histSelect' = s /\ histSwitch' = w
  /\ press' = Read(press, s)
  /\ UNCHANGED << bootVars, button_pressed, pc, menuVars, heldBursts, runs,
                  sessionVars, logVars, profileVars, calVars, graphVars, sdVars,
                  avgVars, parse >>

\* navigateMenu() without the test of currentMenu
navigateMenuAnywhere(s, w) ==
  /\ pc = "poll"
  /\ ~SelectEdge(s) /\ SwitchEdge(w)
  /\ currentSelection' = 1 - currentSelection
  /\ button_pressed' = 0
  /\ pc' = "loop"
  /\ press' = Read(press, s)
  /\ UNCHANGED << bootVars, currentMenu, buttonVars, heldBursts, runs,
                  sessionVars, logVars, profileVars, calVars, graphVars, sdVars,
                  avgVars, parse >>

\* buttons() returns 0: navigateMenu()
navigateMenu(s, w) ==
  /\ pc = "poll"
  /\ ~SelectEdge(s) /\ SwitchEdge(w)
  /\ currentSelection' =
       IF currentMenu = 0 THEN 1 - currentSelection ELSE currentSelection
  /\ button_pressed' = 0
  /\ pc' = "loop"
  /\ press' = Read(press, s)
  /\ UNCHANGED << bootVars, currentMenu, buttonVars, heldBursts, runs,
                  sessionVars, logVars, profileVars, calVars, graphVars, sdVars,
                  avgVars, parse >>

\* SelectHome with the two confirmation menus exchanged
SelectHomeSwapped(s) ==
  /\ pc = "poll" /\ s = 1 /\ histSelect = 0
  /\ currentMenu = 0
  /\ currentMenu' = IF currentSelection = 0 THEN 3 ELSE 1
  /\ button_pressed' = 1
  /\ pc' = "loop"
  /\ press' = Acted(press)
  /\ UNCHANGED << build, intMul, scen, currentSelection, histSelect, histSwitch,
                  heldBursts, runs, historicSelectState, n, current_time,
                  past_time, datalen, x2, xy, initial, initialTaken,
                  specReadings, uvReading, slopes, accepted, bursts, exitBy,
                  logHeader, logRows, logSent, index, calibration, uvCalibration,
                  calI, calSpec, calUv, xMin, xMax, xLen, xAr, observed,
                  lastWrite, seen, sdVars,
                  avgVars, parse >>

\* buttons() returns 1: executeSelection() in the home menu
SelectHome(s) ==
  /\ pc = "poll" /\ SelectEdge(s)
  /\ currentMenu = 0
  /\ currentMenu' = IF currentSelection = 0 THEN 1 ELSE 3
  /\ button_pressed' = 1
  /\ pc' = "loop"
  /\ press' = Acted(press)
  /\ UNCHANGED << bootVars, currentSelection, buttonVars, heldBursts,
                  runs, sessionVars, logVars, profileVars, calVars, graphVars, sdVars,
                  avgVars, parse >>

\* executeSelection() on the DONE screen: setHomeMenu()
SelectDone(s) ==
  /\ pc = "poll" /\ SelectEdge(s)
  /\ currentMenu = 5
  /\ currentMenu' = 0 /\ currentSelection' = 0
  /\ button_pressed' = 1
  /\ pc' = "loop"
  /\ press' = Acted(press)
  /\ UNCHANGED << bootVars, buttonVars, heldBursts, runs,
                  sessionVars, logVars, profileVars, calVars, graphVars, sdVars,
                  avgVars, parse >>

----------------------------------------------------------------------------
(* measuringMenu1() *)

\* executeSelection() in the measurement confirmation menu: the session
\* starts, h is the level digitalRead(selectPin) returns
StartMeasuring(s, h) ==
  /\ pc = "poll" /\ SelectEdge(s)
  /\ currentMenu = 1
  /\ runs < MaxRuns
  /\ currentMenu' = 2
  /\ runs' = runs + 1
  /\ historicSelectState' = h
  /\ heldBursts' = 0
  /\ n' = 0 /\ current_time' = 0 /\ past_time' = 0 /\ datalen' = 0
  /\ x2' = WZero /\ xy' = FZeroVec
  /\ initial' = ZeroVec /\ initialTaken' = FALSE
  /\ specReadings' = ZeroVec /\ uvReading' = 0
  /\ slopes' = NoSlopes /\ accepted' = << >>
  /\ bursts' = 0 /\ exitBy' = "none"
  /\ index' = NextIndex(index)
  /\ logHeader' = TRUE /\ logRows' = 0
  /\ logSent' = << logHeaderLine >>
  /\ ~Run(chan, startNewLog).blocked
  /\ chan' = Run(chan, startNewLog)
  /\ configFile' = IF build = "advanced"
                   THEN File(WrittenFile(Profile(NextIndex(index), calibration,
                                                 uvCalibration)))
                   ELSE configFile
  /\ button_pressed' = 1
  /\ pc' = "sample"
  /\ press' = Read(Acted(press), h)
  /\ UNCHANGED << bootVars, currentSelection, buttonVars,
                  calibration, uvCalibration, calVars, graphVars, loaded,
                  avgVars, parse >>

\* initial[i] = specReadings[i] in every pass
CaptureInitialAlways(taken, init, r) == r

\* if (!initialTaken) { initial[i] = specReadings[i]; initialTaken = true; }
CaptureInitial(taken, init, r) == IF taken THEN init ELSE r

\* one pass of the loop body up to the exit tests
Sample ==
  /\ pc = "sample"
  /\ n < MaxIter
  /\ LET ct == Time(n)
         r == Reading(n)
         init == CaptureInitial(initialTaken, initial, r)
         take == Accept(ct, past_time, datalen)
         x == TotalMinutes(ct)
     IN  /\ current_time' = ct
         /\ specReadings' = r
         /\ uvReading' = UvReading(n)
         /\ initial' = init
         /\ initialTaken' = TRUE
         /\ x2' = IF take THEN AccumulateX2(x2, x) ELSE x2
         /\ xy' = IF take THEN AccumulateXY(xy, r, init, x) ELSE xy
         /\ datalen' = IF take THEN datalen + 1 ELSE datalen
         /\ past_time' = IF take /\ build = "basic" THEN ct ELSE past_time
         /\ accepted' = IF take THEN Append(accepted, n) ELSE accepted
         /\ LET a == IF take
                     THEN UpdateAll([grid |-> timeAverages,
                                     counter |-> sampleCounter,
                                     idx |-> averageIndex], 1)
                     ELSE [grid |-> timeAverages, counter |-> sampleCounter,
                           idx |-> averageIndex]
            IN  /\ timeAverages' = a.grid
                /\ sampleCounter' = a.counter
                /\ averageIndex' = a.idx
         /\ logRows' = logRows + 1
         /\ logSent' = Append(logSent, logRow(ct, r, UvReading(n)))
         /\ IF build = "advanced"
            THEN LET g == [c \in GraphChannels |->
                            graphColor(GraphW[c], GraphH[c],
                                       [min |-> xMin[c], max |-> xMax[c],
                                        len |-> xLen[c], ar |-> xAr[c]],
                                       Plotted(c, UvReading(n), r))]
                 IN  /\ xMin' = [c \in GraphChannels |-> g[c].min]
                     /\ xMax' = [c \in GraphChannels |-> g[c].max]
                     /\ xLen' = [c \in GraphChannels |-> g[c].len]
                     /\ xAr' = [c \in GraphChannels |-> g[c].ar]
                     /\ lastWrite' = [c \in GraphChannels |->
                                        [lo |-> g[c].lo, hi |-> g[c].hi]]
                     /\ observed' = observed + 1
                     /\ seen' = [c \in GraphChannels |->
                                   Extent(seen[c], observed,
                                          Plotted(c, UvReading(n), r))]
            ELSE UNCHANGED graphVars
  /\ chan' = Run(chan, logData)
  /\ pc' = "check"
  /\ UNCHANGED << bootVars, menuVars, pollVars, heldBursts, runs, historicSelectState, n,
                  slopes, bursts, exitBy, logHeader, profileVars, calVars,
                  configFile, loaded, parse, press >>

\* the time ceiling is reached: the loop is left without a burst
ExitOnTime ==
  /\ pc = "check"
  /\ TimeUp(current_time)
  /\ exitBy' = "time"
  /\ pc' = "escape"
  /\ UNCHANGED << bootVars, menuVars, pollVars, heldBursts, runs,
                  historicSelectState, n, current_time, past_time, datalen,
                  x2, xy, initial, initialTaken, specReadings, uvReading,
                  slopes, accepted, bursts, logVars, profileVars, calVars, graphVars, sdVars,
                  avgVars, parse, press >>

\* checkForButtonPress(historicSelectState) over the levels Trace(l0, t);
\* fresh: the session started with the button held, and it was released and
\* pressed again between the last burst and this one.  A burst that reads 1
\* at every poll, after such a press, is a held burst.
Burst(l0, t, fresh) ==
  /\ pc = "check"
  /\ ~TimeUp(current_time)
  /\ fresh => (historicSelectState = 1 /\ n \in PressIters /\ l0 = 1 /\ t = 0)
  /\ heldBursts = 2 => ~(l0 = 1 /\ t = 0)
  /\ LET tr == Trace(l0, t)
         edge == checkForButtonPress(historicSelectState, tr)
     IN  /\ edge => n \in AbortIters
         /\ bursts' = bursts + 1
         /\ heldBursts' =
              IF ~edge /\ l0 = 1 /\ t = 0 /\ (fresh \/ heldBursts > 0)
              THEN (IF heldBursts < 2 THEN heldBursts + 1 ELSE 2)
              ELSE 0
         /\ exitBy' = IF edge THEN "button" ELSE exitBy
         /\ n' = IF edge THEN n ELSE n + 1
         /\ pc' = IF edge THEN "escape" ELSE "sample"
  /\ press' = BurstReads(press, historicSelectState, Trace(l0, t), fresh)
  /\ UNCHANGED << bootVars, menuVars, pollVars, runs,
                  historicSelectState, current_time, past_time, datalen,
                  x2, xy, initial, initialTaken, specReadings, uvReading,
                  slopes, accepted, logVars, profileVars, calVars, graphVars, sdVars,
                  avgVars, parse >>

\* after the loop: processSlopes(), calculateConcentration(), displayResults()
Reduce ==
  /\ pc = "escape"
  /\ slopes' = processSlopes(xy, x2)
  /\ chan' = Run(chan, EndLog)
  /\ pc' = "results"
  /\ UNCHANGED << bootVars, menuVars, pollVars, heldBursts, runs,
                  historicSelectState, n, current_time, past_time, datalen,
                  x2, xy, initial, initialTaken, specReadings, uvReading,
                  accepted, bursts, exitBy, logVars, profileVars, calVars, graphVars,
                  configFile, loaded,
                  avgVars, parse, press >>

\* setHomeMenu() at the end of measuringMenu1(); the locals go out of scope
ReturnHome ==
  /\ pc = "results"
  /\ currentMenu' = 0 /\ currentSelection' = 0
  /\ historicSelectState' = 0
  /\ n' = 0 /\ current_time' = 0 /\ past_time' = 0 /\ datalen' = 0
  /\ x2' = WZero /\ xy' = FZeroVec
  /\ initial' = ZeroVec /\ initialTaken' = FALSE
  /\ specReadings' = ZeroVec /\ uvReading' = 0
  /\ slopes' = NoSlopes /\ accepted' = << >>
  /\ bursts' = 0 /\ exitBy' = "none"
  /\ heldBursts' = 0
  /\ logHeader' = FALSE /\ logRows' = 0 /\ logSent' = << >>
  /\ pc' = "loop"
  /\ UNCHANGED << bootVars, pollVars, runs, profileVars, calVars, graphVars, sdVars,
                  avgVars, parse, press >>

----------------------------------------------------------------------------
(* calibrationMenu() *)

\* executeSelection() in the calibration confirmation menu; u is the value
\* uvReadings starts with
StartCalibrating(s, u) ==
  /\ pc = "poll" /\ SelectEdge(s)
  /\ currentMenu = 3
  /\ runs < MaxRuns
  /\ build = "advanced" => u = 0
  /\ currentMenu' = 5
  /\ runs' = runs + 1
  /\ calI' = 0 /\ calSpec' = ZeroVec /\ calUv' = u
  /\ button_pressed' = 1
  /\ pc' = "cal"
  /\ press' = Acted(press)
  /\ UNCHANGED << bootVars, currentSelection, buttonVars, heldBursts,
                  sessionVars, logVars, profileVars, graphVars, sdVars,
                  avgVars, parse >>

\* one of the 20 passes of the sampling loop
CalSample ==
  /\ pc = "cal"
  /\ calI < CalSamples
  /\ calUv' = Wrap16(calUv + UvReading(calI))
  /\ calSpec' = [i \in Channels |-> calSpec[i] + CalReading(calI)[i]]
  /\ calI' = calI + 1
  /\ UNCHANGED << bootVars, pc, menuVars, pollVars, heldBursts, runs,
                  sessionVars, logVars, profileVars, graphVars, sdVars,
                  avgVars, parse, press >>

\* CalFinish with a setHomeMenu() at its end
CalFinishHome ==
  /\ pc = "cal"
  /\ calI = CalSamples
  /\ uvCalibration' = TruncDiv(calUv, CalSamples)
  /\ calibration' = [i \in Channels |-> CalAverage(calSpec[i])]
  /\ calI' = 0 /\ calSpec' = ZeroVec /\ calUv' = 0
  /\ ~Run(chan, SaveCalibration).blocked
  /\ chan' = Run(chan, SaveCalibration)
  /\ configFile' = File(WrittenFile(Profile(index, calibration', uvCalibration')))
  /\ currentMenu' = 0 /\ currentSelection' = 0
  /\ pc' = "loop"
  /\ UNCHANGED << build, intMul, scen, histSelect, histSwitch, button_pressed,
                  heldBursts, runs, historicSelectState, n, current_time,
                  past_time, datalen, x2, xy, initial, initialTaken,
                  specReadings, uvReading, slopes, accepted, bursts, exitBy,
                  logHeader, logRows, logSent, index,
                  xMin, xMax, xLen, xAr, observed, lastWrite, seen, loaded,
                  avgVars, parse, press >>

\* the averages, the clamp, writeConfig() and the DONE screen
CalFinish ==
  /\ pc = "cal"
  /\ calI = CalSamples
  /\ uvCalibration' = TruncDiv(calUv, CalSamples)
  /\ calibration' = [i \in Channels |-> CalAverage(calSpec[i])]
  /\ calI' = 0 /\ calSpec' = ZeroVec /\ calUv' = 0
  /\ ~Run(chan, SaveCalibration).blocked
  /\ chan' = Run(chan, SaveCalibration)
  /\ configFile' = File(WrittenFile(Profile(index, calibration', uvCalibration')))
  /\ pc' = "loop"
  /\ UNCHANGED << bootVars, menuVars, pollVars, heldBursts, runs,
                  sessionVars, logVars, index, graphVars, loaded,
                  avgVars, parse, press >>

----------------------------------------------------------------------------

Next ==
  \/ \E s \in Levels, w \in Levels : EnterButtons(s, w)
  \/ \E s \in Levels, w \in Levels : PollIdle(s, w)
  \/ \E s \in Levels, w \in Levels : navigateMenu(s, w)
  \/ \E s \in Levels : SelectHome(s)
  \/ \E s \in Levels : SelectDone(s)
  \/ \E s \in Levels, h \in Levels : StartMeasuring(s, h)
  \/ Sample
  \/ ExitOnTime
  \/ \E l0 \in Levels, t \in TogglePolls, fresh \in BOOLEAN : Burst(l0, t, fresh)
  \/ Reduce
  \/ ReturnHome
  \/ \E s \in Levels, u \in UninitInts : StartCalibrating(s, u)
  \/ CalSample
  \/ CalFinish

Spec == Init /\ [][Next]_vars

----------------------------------------------------------------------------
(* Boot and save on cards of every kind: the sketch from power-up, with the *)
(* configuration file the card holds drawn from InitialFiles                *)

\* profiles that calibrationMenu() and measuringMenu1() come to save:
\* baselines are hundredths, never negative
SavedProfiles ==
  { DefaultProfile,
    Profile(7, << 105, 0, 123455, 5, 990, 10 >>, 1234),
    Profile(0 - 1, << 0, 0, 0, 0, 0, 100 >>, 0 - 5),
    Profile(32767, << 100, 200, 300, 400, 500, 600 >>, 7) }

\* header with the byte at position p replaced
Damaged(p) == [configHeader EXCEPT ![p] = "#"]
\* header cut after p bytes
Truncated(p) == SubSeq(configHeader, 1, p)

SomeRow == ConfigRow(Profile(7, << 105, 0, 123455, 5, 990, 10 >>, 1234))

\* rows whose first field has 10 and 11 characters: the index 7 written
\* with zeros before it
LongRows ==
  { [i \in 1..k |-> "0"] \o ConfigRow(Profile(7, << 105, 0, 0, 0, 0, 0 >>, 5)) :
      k \in {dataBufLen - 1, dataBufLen} }

InitialFiles ==
  { NoFile, EmptyFile }
  \cup { File(WrittenFile(pr)) : pr \in SavedProfiles }
  \cup { File(<< Damaged(p), SomeRow >>) : p \in 1..headerlen }
  \cup { File(<< Truncated(p), SomeRow >>) : p \in 0..(headerlen - 1) }
  \cup { File(<< Truncated(12) >>) }
  \cup { File(<< configHeader, row >>) : row \in LongRows }

ConfigInit ==
  /\ build \in {"basic", "advanced"}
  /\ intMul = "wrap16"
  /\ scen = CHOOSE sc \in Scenarios(build) : TRUE
  /\ pc = "boot"
  /\ currentMenu = 0 /\ currentSelection = 0
  /\ histSelect = 0 /\ histSwitch = 0
  /\ button_pressed = 0 - 1
  /\ heldBursts = 0
  /\ runs = 0
  /\ historicSelectState = 0 /\ n = 0
  /\ current_time = 0 /\ past_time = 0 /\ datalen = 0
  /\ x2 = WZero /\ xy = FZeroVec
  /\ initial = ZeroVec /\ initialTaken = FALSE
  /\ specReadings = ZeroVec /\ uvReading = 0
  /\ slopes = NoSlopes /\ accepted = << >>
  /\ bursts = 0 /\ exitBy = "none"
  /\ logHeader = FALSE /\ logRows = 0 /\ logSent = << >>
  /\ index = 0 /\ calibration = ZeroVec /\ uvCalibration = 0
  /\ calI = 0 /\ calSpec = ZeroVec /\ calUv = 0
  /\ xMin = [c \in GraphChannels |-> 0 - 1]
  /\ xMax = [c \in GraphChannels |-> 0 - 1]
  /\ xLen = [c \in GraphChannels |-> 0]
  /\ xAr = [c \in GraphChannels |-> [j \in 0..(ArraySize[c] - 1) |-> 0]]
  /\ observed = 0
  /\ lastWrite = [c \in GraphChannels |-> [lo |-> 0, hi |-> 0]]
  /\ seen = [c \in GraphChannels |-> [min |-> 0, max |-> 0]]
  /\ timeAverages = [ch \in Channels |-> [i \in Slots |-> EmptySlot]]
  /\ sampleCounter = 0 /\ averageIndex = 0
  /\ configFile \in InitialFiles
  /\ loaded = "none"
  /\ press = NoPress
  /\ chan = PowerUp
  /\ parse = NoParse

restVars == << bootVars, pollVars, heldBursts, runs, sessionVars, logVars,
               calVars, graphVars, avgVars, press >>

\* setup(): setupSD(), gotoCommandMode(), loadConfig(), setHomeMenu()
Boot(miss) ==
  /\ pc = "boot"
  /\ LET r == loadConfig(Profile(index, calibration, uvCalibration),
                         configFile, miss)
         st == Run(chan, setup(r.ok, r.taken))
         \* a write past dataBuf is undefined: the globals may come out as
         \* the fields read, or as anything else
         results == IF r.top >= dataBufLen
                    THEN SavedProfiles \cup {r.profile} ELSE {r.profile}
     IN  /\ ~r.hung /\ ~st.blocked
         /\ \E pr \in results :
              /\ index' = pr.index
              /\ calibration' = pr.calibration
              /\ uvCalibration' = pr.uvCalibration
              /\ configFile' = IF r.ok THEN configFile
                               ELSE File(WrittenFile(pr))
         /\ loaded' = IF r.ok THEN "parsed" ELSE "default"
         /\ chan' = st
         /\ parse' = [NoParse EXCEPT !.top = r.top]
  /\ currentMenu' = 0 /\ currentSelection' = 0
  /\ pc' = "loop"
  /\ UNCHANGED restVars

\* readConfigData() has written past dataBuf and setup() does not return:
\* the write is undefined, and the stack it lands on holds the other locals
\* and the return address
BootOverrun ==
  /\ pc = "boot"
  /\ LET r == loadConfig(Profile(index, calibration, uvCalibration),
                         configFile, << ">" >>)
     IN  /\ ~r.hung /\ r.top >= dataBufLen
         /\ parse' = [NoParse EXCEPT !.top = r.top]
  /\ pc' = "hung"
  /\ UNCHANGED << menuVars, profileVars, sdVars, restVars >>

\* setup() that never returns: a wait in it finds no byte
BootHangs ==
  /\ pc = "boot"
  /\ Run(chan, setup(FALSE, FALSE)).blocked
  /\ chan' = Run(chan, setup(FALSE, FALSE))
  /\ pc' = "hung"
  /\ UNCHANGED << menuVars, profileVars, configFile, loaded, restVars, parse >>

\* writeConfig() that never returns: the globals are set, a wait finds no
\* byte
SaveHangs(pr) ==
  /\ pc = "loop"
  /\ Run(chan, writeConfig).blocked
  /\ index' = pr.index
  /\ calibration' = pr.calibration
  /\ uvCalibration' = pr.uvCalibration
  /\ chan' = Run(chan, writeConfig)
  /\ pc' = "hung"
  /\ UNCHANGED << menuVars, configFile, loaded, restVars, parse >>

\* the device stops answering: the card is pulled or the OpenLog fails
DeviceStops ==
  /\ pc \in {"boot", "loop"}
  /\ chan.alive
  /\ chan' = [chan EXCEPT !.alive = FALSE]
  /\ UNCHANGED << pc, menuVars, profileVars, configFile, loaded, restVars, parse >>

\* writeConfig() with the globals at pr, as calibrationMenu() and
\* measuringMenu1() call it
Save(pr) ==
  /\ pc = "loop"
  /\ ~Run(chan, writeConfig).blocked
  /\ index' = pr.index
  /\ calibration' = pr.calibration
  /\ uvCalibration' = pr.uvCalibration
  /\ configFile' = File(WrittenFile(pr))
  /\ chan' = Run(chan, writeConfig)
  /\ UNCHANGED << pc, menuVars, loaded, restVars, parse >>

\* Restart with the profile kept over the reset
RestartKeepsProfile ==
  /\ UNCHANGED profileVars
  /\ currentMenu' = 0 /\ currentSelection' = 0
  /\ loaded' = "none"
  /\ chan' = PowerUp
  /\ pc' = "boot"
  /\ UNCHANGED << restVars, parse >>

\* the power fails and comes back: the globals are initialised again
Restart ==
  /\ index' = 0 /\ calibration' = ZeroVec /\ uvCalibration' = 0
  /\ currentMenu' = 0 /\ currentSelection' = 0
  /\ loaded' = "none"
  /\ chan' = PowerUp
  /\ pc' = "boot"
  /\ UNCHANGED << restVars, parse >>

\* between two handlers
PowerCycle ==
  /\ pc = "loop"
  /\ Restart
  /\ UNCHANGED configFile

\* inside writeConfig(): after rm the file is gone, after new and after
\* write it is there and empty
PowerLossInSave(left) ==
  /\ pc = "loop"
  /\ Restart
  /\ configFile' = left

ConfigNext ==
  \/ \E miss \in MissReplies : Boot(miss)
  \/ \E pr \in SavedProfiles : Save(pr)
  \/ PowerCycle
  \/ \E left \in {NoFile, EmptyFile} : PowerLossInSave(left)
  \/ DeviceStops
  \/ BootHangs
  \/ BootOverrun
  \/ \E pr \in SavedProfiles : SaveHangs(pr)

ConfigSpec == ConfigInit /\ [][ConfigNext]_vars

----------------------------------------------------------------------------
(* graphColor() on measurements of every kind: the seven windows from their *)
(* initial values, each call giving all of them one value of Measurements   *)

MaxObs == 4
Measurements == {0 - 1, 0, 5, 20}

GraphInit ==
  /\ build = "advanced"
  /\ intMul = "wrap16"
  /\ scen = CHOOSE sc \in Scenarios(build) : TRUE
  /\ pc = "graph"
  /\ currentMenu = 2 /\ currentSelection = 0
  /\ histSelect = 0 /\ histSwitch = 0
  /\ button_pressed = 1
  /\ heldBursts = 0
  /\ runs = 1
  /\ historicSelectState = 0 /\ n = 0
  /\ current_time = 0 /\ past_time = 0 /\ datalen = 0
  /\ x2 = WZero /\ xy = FZeroVec
  /\ initial = ZeroVec /\ initialTaken = FALSE
  /\ specReadings = ZeroVec /\ uvReading = 0
  /\ slopes = NoSlopes /\ accepted = << >>
  /\ bursts = 0 /\ exitBy = "none"
  /\ logHeader = FALSE /\ logRows = 0 /\ logSent = << >>
  /\ index = 0 /\ calibration = ZeroVec /\ uvCalibration = 0
  /\ calI = 0 /\ calSpec = ZeroVec /\ calUv = 0
  /\ xMin = [c \in GraphChannels |-> 0 - 1]
  /\ xMax = [c \in GraphChannels |-> 0 - 1]
  /\ xLen = [c \in GraphChannels |-> 0]
  /\ xAr = [c \in GraphChannels |-> [j \in 0..(ArraySize[c] - 1) |-> 0]]
  /\ observed = 0
  /\ lastWrite = [c \in GraphChannels |-> [lo |-> 0, hi |-> 0]]
  /\ seen = [c \in GraphChannels |-> [min |-> 0, max |-> 0]]
  /\ timeAverages = [ch \in Channels |-> [i \in Slots |-> EmptySlot]]
  /\ sampleCounter = 0 /\ averageIndex = 0
  /\ configFile = File(WrittenFile(DefaultProfile))
  /\ loaded = "parsed"
  /\ press = NoPress
  /\ chan = Run(PowerUp, setup(TRUE, FALSE))
  /\ parse = [NoParse EXCEPT !.top = loadConfig(DefaultProfile, configFile,
                                                << ">" >>).top]

\* the seven graphColor() calls of one pass, each with the measurement v
Observe(v) ==
  /\ pc = "graph"
  /\ observed < MaxObs
  /\ LET g == [c \in GraphChannels |->
                graphColor(GraphW[c], GraphH[c],
                           [min |-> xMin[c], max |-> xMax[c],
                            len |-> xLen[c], ar |-> xAr[c]], v)]
     IN  /\ xMin' = [c \in GraphChannels |-> g[c].min]
         /\ xMax' = [c \in GraphChannels |-> g[c].max]
         /\ xLen' = [c \in GraphChannels |-> g[c].len]
         /\ xAr' = [c \in GraphChannels |-> g[c].ar]
         /\ lastWrite' = [c \in GraphChannels |-> [lo |-> g[c].lo, hi |-> g[c].hi]]
         /\ observed' = observed + 1
         /\ seen' = [c \in GraphChannels |-> Extent(seen[c], observed, v)]
  /\ UNCHANGED << bootVars, pc, menuVars, pollVars, heldBursts, runs,
                  sessionVars, logVars, profileVars, calVars, sdVars,
                  avgVars, parse, press >>

GraphNext == \E v \in Measurements : Observe(v)

GraphSpec == GraphInit /\ [][GraphNext]_vars

----------------------------------------------------------------------------
(* checkHeader() one OpenLog.read() at a time, on streams whose bytes arrive *)
(* when the device sends them: at each read the next byte is there or not    *)

\* what the device sends after "\r\n": the header and a row, a header with a
\* wrong byte, a header that stops, a header with a byte of value above 127
HeaderStreams ==
  { configHeader \o << "\r" >> \o SomeRow,
    Damaged(5) \o << "\r" >>,
    Truncated(12),
    SubSeq(configHeader, 1, 3) \o << "0xFF" >> \o SubSeq(configHeader, 4, headerlen) }

HeaderInit ==
  /\ build \in {"basic", "advanced"}
  /\ intMul = "wrap16"
  /\ scen = CHOOSE sc \in Scenarios(build) : TRUE
  /\ pc = "header"
  /\ currentMenu = 0 /\ currentSelection = 0
  /\ histSelect = 0 /\ histSwitch = 0
  /\ button_pressed = 0 - 1
  /\ heldBursts = 0
  /\ runs = 0
  /\ historicSelectState = 0 /\ n = 0
  /\ current_time = 0 /\ past_time = 0 /\ datalen = 0
  /\ x2 = WZero /\ xy = FZeroVec
  /\ initial = ZeroVec /\ initialTaken = FALSE
  /\ specReadings = ZeroVec /\ uvReading = 0
  /\ slopes = NoSlopes /\ accepted = << >>
  /\ bursts = 0 /\ exitBy = "none"
  /\ logHeader = FALSE /\ logRows = 0 /\ logSent = << >>
  /\ index = 0 /\ calibration = ZeroVec /\ uvCalibration = 0
  /\ calI = 0 /\ calSpec = ZeroVec /\ calUv = 0
  /\ xMin = [c \in GraphChannels |-> 0 - 1]
  /\ xMax = [c \in GraphChannels |-> 0 - 1]
  /\ xLen = [c \in GraphChannels |-> 0]
  /\ xAr = [c \in GraphChannels |-> [j \in 0..(ArraySize[c] - 1) |-> 0]]
  /\ observed = 0
  /\ lastWrite = [c \in GraphChannels |-> [lo |-> 0, hi |-> 0]]
  /\ seen = [c \in GraphChannels |-> [min |-> 0, max |-> 0]]
  /\ timeAverages = [ch \in Channels |-> [i \in Slots |-> EmptySlot]]
  /\ sampleCounter = 0 /\ averageIndex = 0
  /\ configFile = File(WrittenFile(DefaultProfile))
  /\ loaded = "none"
  /\ press = NoPress
  /\ chan = PowerUp
  /\ parse \in { [NoParse EXCEPT !.stream = s, !.outcome = "comparing"] :
                   s \in HeaderStreams }

headerFrame == << bootVars, pc, menuVars, profileVars, sdVars, restVars >>

\* OpenLog.read() gives a byte of value 1..127: the body of the while loop
ReadByte ==
  /\ pc = "header" /\ parse.outcome = "comparing"
  /\ parse.stream # << >> /\ Head(parse.stream) \notin NonPositive
  /\ parse' = [Compare(parse, Head(parse.stream)) EXCEPT
                 !.stream = Tail(parse.stream),
                 !.lateByte = parse.lateByte \/ parse.timeOut = Patience - 1]
  /\ UNCHANGED headerFrame

\* OpenLog.read() gives a byte that (char) makes zero or negative: the byte
\* is gone from the receive buffer and the while loop is left
ReadDiscarded ==
  /\ pc = "header" /\ parse.outcome = "comparing"
  /\ parse.stream # << >> /\ Head(parse.stream) \in NonPositive
  /\ parse' = [EndPoll(parse) EXCEPT !.stream = Tail(parse.stream)]
  /\ UNCHANGED headerFrame

\* OpenLog.read() gives -1: no byte has arrived, the while loop is left
ReadNothing ==
  /\ pc = "header" /\ parse.outcome = "comparing"
  /\ parse' = EndPoll(parse)
  /\ UNCHANGED headerFrame

HeaderNext == ReadByte \/ ReadDiscarded \/ ReadNothing

\* the processor keeps executing the loop
HeaderSpec == HeaderInit /\ [][HeaderNext]_vars /\ WF_vars(HeaderNext)

----------------------------------------------------------------------------
(* The session state machine *)

\* buttons() has just returned 1: the step consumes a select edge
SelectStep == pc = "poll" /\ pc' # "poll" /\ button_pressed' = 1

\* C1: a select edge in Home moves to the confirmation menu of the current
\* sub-selection (1 for NewSample, 3 for Calibrate); a select edge in menu 1
\* enters Measuring and in menu 3 enters Calibrating; Measuring is entered
\* only from menu 1 and Calibrating only from menu 3, in both builds.
C1_SelectEdges ==
  [][ /\ SelectStep =>
           /\ (currentMenu = 0 /\ currentSelection = 0) => currentMenu' = 1
           /\ (currentMenu = 0 /\ currentSelection = 1) => currentMenu' = 3
           /\ currentMenu = 1 => (currentMenu' = 2 /\ pc' = "sample")
           /\ currentMenu = 3 => (currentMenu' = 5 /\ pc' = "cal")
      /\ (pc' = "sample" /\ pc \notin {"sample", "check"}) =>
           (SelectStep /\ currentMenu = 1 /\ currentMenu' = 2)
      /\ (pc' = "cal" /\ pc # "cal") =>
           (SelectStep /\ currentMenu = 3 /\ currentMenu' = 5)
      /\ (currentMenu' = 2 /\ currentMenu # 2) => currentMenu = 1
      /\ (currentMenu' = 5 /\ currentMenu # 5) => currentMenu = 3
    ]_vars

\* a Measuring session entered after a Calibrating run that went through
\* menus 3 and 5
C1_Reached ==
  currentMenu = 2 /\ pc = "sample" /\ calibration[3] > 0 /\ runs = 2

\* C2 as stated: the step that completes a Measuring run or a Calibrating
\* run leaves the controller in Home.
C2_BothReturnHome ==
  [][ ((pc = "results" \/ pc = "cal") /\ pc' = "loop") => currentMenu' = 0 ]_vars

\* C2, amended: the step that completes a Measuring run leaves the
\* controller in Home; the step that completes a Calibrating run leaves it
\* on the completion screen (menu 5), which is left only by a select edge,
\* and then for Home.
C2_ReturnHome ==
  [][ /\ (pc = "results" /\ pc' = "loop") => (currentMenu' = 0 /\ currentSelection' = 0)
      /\ (pc = "cal" /\ pc' = "loop") => currentMenu' = 5
      /\ (currentMenu = 5 /\ pc # "cal" /\ currentMenu' # 5) =>
           (SelectStep /\ currentMenu' = 0)
    ]_vars

\* the completion screen waits for a button after a Calibrating run, in a
\* device that has measured before
C2_Reached ==
  currentMenu = 5 /\ pc = "poll" /\ runs = 2 /\ calibration[3] > 0 /\ index = 1

----------------------------------------------------------------------------
(* The exit policy of the Measuring loop *)

\* C3 as stated: the basic build does not leave the loop on time before
\* 300000 ms have elapsed.
C3_FiveMinuteCeiling ==
  (build = "basic" /\ exitBy = "time") => current_time >= 300000

\* a basic session left on time
C3_Reached == build = "basic" /\ exitBy = "time" /\ pc = "escape"

\* C4 as stated: one burst is run in every iteration of the advanced loop,
\* so that a loop left after iteration n has run n + 1 bursts.
C4_BurstEveryIteration ==
  (build = "advanced" /\ pc = "escape") => bursts = n + 1

\* C4, amended: the advanced loop is left at the end of an iteration
\* exactly if the elapsed time is at least 60 whole minutes or the burst of
\* the iteration saw a rising edge; the burst is run once in every
\* iteration below the ceiling and not in the iteration that reaches it;
\* otherwise the next iteration starts.
C4_ExitPolicy ==
  [][ (build = "advanced" /\ pc = "check") =>
        /\ pc' \in {"escape", "sample"}
        /\ pc' = "escape" <=>
             ((current_time \div 1000) \div 60 >= 60 \/ exitBy' = "button")
        /\ exitBy' = "button" =>
             (bursts' = bursts + 1 /\ (current_time \div 1000) \div 60 < 60)
        /\ bursts' =
             bursts + (IF (current_time \div 1000) \div 60 >= 60 THEN 0 ELSE 1)
        /\ pc' = "sample" => (n' = n + 1 /\ bursts' = n')
    ]_vars

\* the loop left on time after 61 iterations and 60 bursts
C4_Reached ==
  build = "advanced" /\ pc = "escape" /\ exitBy = "time" /\ n = 60 /\ bursts = 60

\* C5 as stated: a press made and held during the run is seen by the next
\* burst, so no two bursts in a row poll it without an edge.
C5_AbortLatency == heldBursts < 2

\* a burst has polled a held press without an edge
C5_Reached == heldBursts = 1 /\ pc = "sample" /\ historicSelectState = 1

----------------------------------------------------------------------------
(* The streaming regression *)

\* the closed form over a list of iterations: x of iteration k, y of channel
\* i at iteration k, and the two sums
OLSx(k) == TotalMinutes(Time(k))
OLSy(i, k) == (signal_resolution_multiplier * Reading(k)[i]) \div Reading(0)[i] - 1

RECURSIVE SumXX(_)
SumXX(ks) ==
  IF ks = << >> THEN WZero
  ELSE WAdd(SumXX(Tail(ks)), WMul(OLSx(Head(ks)), OLSx(Head(ks))))

RECURSIVE SumXY(_, _)
SumXY(i, ks) ==
  IF ks = << >> THEN WZero
  ELSE WAdd(SumXY(i, Tail(ks)), WMul(OLSy(i, Head(ks)), OLSx(Head(ks))))

\* C6: at the end of Measuring, for every channel with a nonzero initial
\* reading and at least two accepted samples, x2 is the sum of x*x and xy[i]
\* the sum of x*y_i over exactly the accepted samples, and slopes[i] is
\* their quotient; samples that were not accepted contribute nothing.
C6_StreamingIsClosedForm ==
  pc = "results" =>
    \A i \in Channels :
      (initial[i] # 0 /\ Len(accepted) >= 2) =>
        /\ x2 = SumXX(accepted)
        /\ xy[i] = Fin(SumXY(i, accepted))
        /\ slopes[i] = [k |-> "fin", num |-> SumXY(i, accepted),
                                     den |-> SumXX(accepted)]

\* a session reduced after 50 accepted samples and later samples that were
\* not accepted
C6_Reached ==
  /\ pc = "results" /\ Len(accepted) = maxlen /\ logRows > maxlen + 1
  /\ initial[1] = 100 /\ slopes[1].k = "fin"

\* Scenario A: one channel with initial reading 100 and three accepted
\* samples reading 110, 120, 130 at 1, 2 and 3 minutes
ScenarioA ==
  /\ pc = "results" /\ accepted = << 1, 2, 3 >>
  /\ initial[1] = 100
  /\ \A j \in 1..3 : Time(j) = j * 60000 /\ Reading(j)[1] = 100 + 10 * j

\* C7 as stated: in Scenario A the sum of x*x is 14 and the sum of x*y is
\* 1400000 (slope 100000).
C7_ScenarioA ==
  ScenarioA => (x2 = WFromInt(14) /\ xy[1] = Fin(WFromInt(1400000)))

\* Scenario A has run: the sums are 14000000 and 125498000
C7_Reached ==
  ScenarioA /\ x2 = WFromInt(14000000) /\ xy[1] = Fin(WFromInt(125498000))

\* C8: the count of accepted samples of a session never exceeds 50; once it
\* is 50, a sample leaves x2 and the six xy unchanged, and is still logged
\* and, in the advanced build, still graphed.
C8_AcceptanceCap ==
  [][ /\ datalen' <= maxlen /\ Len(accepted') = datalen'
      /\ (pc = "sample" /\ pc' = "check" /\ datalen = maxlen) =>
           /\ x2' = x2 /\ xy' = xy /\ datalen' = datalen
           /\ logRows' = logRows + 1
           /\ build = "advanced" =>
                (observed' = observed + 1 /\ \A c \in GraphChannels : lastWrite'[c].hi >= 0)
    ]_vars

\* a sample taken after the 50th accepted one
C8_Reached ==
  pc = "check" /\ datalen = maxlen /\ n > accepted[maxlen] /\ logRows = n + 1

\* C9 as stated: when x2 is 0 or a channel's initial reading is 0 at
\* reduction, the channel's slope is not the outcome of a division by zero.
C9_ZeroDenominatorReported ==
  pc = "results" =>
    \A i \in Channels :
      (x2 = WZero \/ initial[i] = 0) => slopes[i].k \notin {"nan", "pinf", "ninf"}

\* a session reduced with no accepted sample
C9_Reached == pc = "results" /\ x2 = WZero /\ slopes[1].k = "nan"

----------------------------------------------------------------------------
(* The graph windows *)

Min(a, b) == IF a < b THEN a ELSE b

\* C10: after N observations every window holds min(N, width) values, never
\* more than its width, and every write of an observation is at an index
\* inside the declared array.
C10_GraphLength ==
  \A c \in GraphChannels :
    /\ xLen[c] = Min(observed, GraphW[c])
    /\ xLen[c] <= GraphW[c]
    /\ 0 <= lastWrite[c].lo /\ lastWrite[c].hi < ArraySize[c]

\* all windows are full and have been written to since
C10_Reached ==
  /\ observed > 95
  /\ \A c \in GraphChannels : xLen[c] = GraphW[c] /\ lastWrite[c].hi = GraphW[c] - 1

\* the window of channel c is at capacity
AtCapacity(c) == xLen[c] = GraphW[c]

\* C11 as stated: an observation on a window at capacity drops the oldest
\* entry, moves every other entry one place down and appends the new one.
C11_SlidingWindow ==
  [][ \A c \in GraphChannels :
        (AtCapacity(c) /\ observed' = observed + 1) =>
          /\ xLen'[c] = GraphW[c]
          /\ \A j \in 0..(GraphW[c] - 2) : xAr'[c][j] = xAr[c][j + 1]
    ]_vars

\* an observation made on a full window, whose two newest entries differed
C11_Reached ==
  /\ pc = "check" /\ observed = GraphW[2] + 2 /\ xLen[2] = GraphW[2]
  /\ xAr[2][GraphW[2] - 1] # xAr[2][GraphW[2] - 2]

\* the position the last observation stored in window c, and its value
LastPosition(c) == xAr[c][lastWrite[c].hi]
LastValue(c) == Plotted(c, uvReading, specReadings)
JustObserved == build = "advanced" /\ pc \in {"check", "escape", "results"}

\* C12 as stated: the position is the quotient
\* (value - min) * (height - 1) / (max - min) rounded to the nearest
\* integer, 0 when min equals max, and lies in 0..height-1.
C12_RoundedPosition ==
  JustObserved =>
    \A c \in GraphChannels :
      LET p == LastPosition(c)
          d == xMax[c] - xMin[c]
          q == 2 * (LastValue(c) - xMin[c]) * (GraphH[c] - 1)
      IN  /\ d = 0 => p = 0
          /\ d # 0 => (2 * p * d - d <= q /\ q < 2 * p * d + d)
          /\ p \in 0..(GraphH[c] - 1)

\* C12, amended: the position is the integer part of the quotient (the
\* quotient truncated, not rounded), 0 when min equals max, and lies in
\* 0..height-1.
C12_TruncatedPosition ==
  JustObserved =>
    \A c \in GraphChannels :
      LET p == LastPosition(c)
          d == xMax[c] - xMin[c]
          q == (LastValue(c) - xMin[c]) * (GraphH[c] - 1)
      IN  /\ d = 0 => p = 0
          /\ d # 0 => (d > 0 /\ p * d <= q /\ q < (p + 1) * d)
          /\ p \in 0..(GraphH[c] - 1)

\* an observation whose quotient has a fraction above one half: a third of
\* the way up a window of height 17
C12_Reached ==
  /\ JustObserved /\ xMin[4] = 100 /\ xMax[4] = 190 /\ LastValue(4) = 130
  /\ LastPosition(4) = 5

----------------------------------------------------------------------------
(* Calibration *)

\* the sum of the readings of channel i in passes 0..k-1
RECURSIVE CalSum(_, _)
CalSum(i, k) == IF k = 0 THEN 0 ELSE CalSum(i, k - 1) + CalReading(k - 1)[i]

\* C13: the step that completes a Calibrating run leaves in every baseline
\* max(a, 0), a the sum of the channel's 20 readings divided by 20 (values
\* in hundredths), so that no baseline is negative.
C13_CalibrationClamp ==
  [][ (pc = "cal" /\ pc' = "loop") =>
        \A i \in Channels :
          LET a == 5 * CalSum(i, CalSamples)
          IN  /\ calibration'[i] = (IF a > 0 THEN a ELSE 0)
              /\ calibration'[i] >= 0
    ]_vars

\* a completed run in which a channel averaged below zero and was clamped
C13_Reached ==
  /\ currentMenu = 5 /\ pc = "loop" /\ scen.prof = "dark"
  /\ CalSum(1, CalSamples) < 0 /\ calibration[1] = 0 /\ calibration[3] > 0

----------------------------------------------------------------------------
(* The configuration file *)

\* the first line of the file is not the header: the file is not there, or
\* is empty, or its first line is shorter than the header or differs from it
\* in some position
HeaderMismatch(file) ==
  \/ ~file.exists
  \/ file.lines = << >>
  \/ Len(file.lines[1]) < headerlen
  \/ \E q \in 1..headerlen : file.lines[1][q] # configHeader[q]

LoadedProfile == Profile(index, calibration, uvCalibration)

C15_RoundTrip ==
  [][(pc = "boot" /\ pc' = "loop")
       => \A pr \in SavedProfiles :
            configFile = File(WrittenFile(pr))
              => /\ loaded' = "parsed"
                 /\ index' = pr.index
                 /\ uvCalibration' = pr.uvCalibration
                 /\ \A i \in Channels :
                      PrintFloat2(calibration'[i]) = PrintFloat2(pr.calibration[i])
                 /\ configFile' = configFile]_vars

\* a boot has parsed the file of a profile with a two-digit fraction, a
\* four-digit baseline and a non-zero index
C15_Reached ==
  /\ pc = "loop" /\ loaded = "parsed"
  /\ index = 7 /\ uvCalibration = 1234
  /\ calibration = << 105, 0, 123455, 5, 990, 10 >>
  /\ configFile = File(WrittenFile(LoadedProfile))

\* C16: a save cut off after rm and before the header leaves the file
\* missing or empty; the next boot finds no header, comes up with the
\* default profile and rewrites the file, as for a header mismatch
C16_InterruptedSave ==
  [][(pc = "boot" /\ pc' = "loop" /\ configFile \in {NoFile, EmptyFile})
       => /\ loaded' = "default"
          /\ index' = 0 /\ calibration' = ZeroVec /\ uvCalibration' = 0
          /\ configFile' = File(WrittenFile(DefaultProfile))]_vars

\* a boot has found the file missing or empty: the prompt was the first byte
\* of the reply, nothing is left unread, and the default profile is loaded
C16_Reached ==
  /\ pc = "loop" /\ loaded = "default"
  /\ index = 0 /\ calibration = ZeroVec /\ uvCalibration = 0
  /\ configFile = File(WrittenFile(DefaultProfile))
  /\ chan.rx = << >> /\ ~chan.stale

----------------------------------------------------------------------------
(* The serial channel *)

\* C17 as stated: every confirmation wait ends on a byte the device sent in
\* answer to the line sent last, never on a prompt left unread from an
\* earlier command or append session
C17_ChannelExclusive == ~chan.stale

\* a second run has begun: the wait after its rm ended on the prompt that
\* closed an append session of the first
C17_Reached == runs = 2 /\ chan.stale

\* C19 as stated: in every append session no payload byte is sent before the
\* entry prompt of its append command has been read
C19_AppendHandshake == ~chan.early

\* the log header has been sent with the '<' of its append command unread
C19_Reached ==
  /\ pc = "sample" /\ logHeader /\ logRows = 0
  /\ chan.early
  /\ \E i \in DOMAIN chan.rx : chan.rx[i].ch = "<"

\* C20 as stated: after every append session the '>' that answers its three
\* 0x1A bytes is read before the next command line is sent
C20_CommandModeEntry == ~chan.unconf

\* the append command of the first row has been sent with the '>' that
\* closes the header session unread
C20_Reached ==
  /\ pc = "check" /\ logRows = 1
  /\ chan.unconf
  /\ \E i \in DOMAIN chan.rx : chan.rx[i].src = "end"

----------------------------------------------------------------------------
(* The log file *)

InSession == pc \in {"sample", "check", "escape", "results"}

\* C18: in a Measuring session the header is sent once and first; every
\* iteration sends one row, of the sample taken in that iteration whether it
\* was accepted or not; the rows are in the order of the iterations and
\* their elapsed milliseconds never decrease
C18_LogOrder ==
  InSession =>
    /\ Len(logSent) = 1 + (IF pc = "sample" THEN n ELSE n + 1)
    /\ logSent[1].kind = "header"
    /\ \A i \in 2..Len(logSent) :
         /\ logSent[i].kind = "row"
         /\ logSent[i].time = Time(i - 2)
         /\ logSent[i].readings = Reading(i - 2)
         /\ logSent[i].uv = UvReading(i - 2)
    /\ \A i \in 2..(Len(logSent) - 1) : logSent[i].time <= logSent[i + 1].time

\* four iterations have run: four rows follow the header, and fewer than
\* four samples were accepted
C18_Reached ==
  /\ pc = "check" /\ n = 3
  /\ Len(logSent) = 5
  /\ Len(accepted) < 4
  /\ logSent[5].time > logSent[2].time

----------------------------------------------------------------------------
(* Waits without a time limit *)

\* C21: a handler gets past a confirmation wait only by reading the byte;
\* once the device has stopped answering, setup() and writeConfig() never
\* return: the controller stays where the wait was issued and no later
\* state is reached
C21_WaitBlocks ==
  [][/\ (pc = "boot" /\ ~chan.alive) => pc' = "hung"
     /\ (pc = "loop" /\ ~chan.alive) => pc' \in {"hung", "boot"}
     /\ (pc' = "loop" /\ chan' # chan) => (chan.alive /\ ~chan'.blocked)
     /\ pc = "hung" => pc' = "hung"]_vars

\* writeConfig() was called with a new profile in the globals after the
\* device had stopped answering: it waits, and the file is as it was
C21_Reached ==
  /\ pc = "hung" /\ chan.blocked /\ ~chan.alive
  /\ index = 7 /\ loaded = "parsed"
  /\ configFile = File(WrittenFile(DefaultProfile))

----------------------------------------------------------------------------
(* The live profile *)

CalFinishStep == pc = "cal" /\ calI = CalSamples /\ pc' = "loop"
StartMeasuringStep == pc = "poll" /\ currentMenu = 1 /\ pc' = "sample"

\* C22 as stated: after boot no profile field changes except when a
\* Calibrating run completes, in both builds
C22_OnlyCalibrationWrites ==
  [][LoadedProfile' # LoadedProfile => CalFinishStep]_vars

\* C22: the six baselines and the ultraviolet baseline change only when a
\* Calibrating run completes, and that step leaves the index alone; the
\* index changes only at the start of a Measuring run of the advanced
\* build, which adds one and saves the profile; the basic build never
\* changes it
C22_ProfileFrame ==
  [][/\ << calibration, uvCalibration >>' # << calibration, uvCalibration >>
          => CalFinishStep
     /\ CalFinishStep => index' = index
     /\ index' # index => (build = "advanced" /\ StartMeasuringStep)
     /\ (build = "advanced" /\ StartMeasuringStep)
          => /\ index' = index + 1
             /\ configFile' = File(WrittenFile(LoadedProfile'))]_vars

\* the advanced build has started its second Measuring run: the index is 2
\* and the file holds the profile with that index
C22_Reached ==
  /\ build = "advanced" /\ pc = "sample" /\ index = 2 /\ logRows = 0
  /\ configFile = File(WrittenFile(LoadedProfile))

----------------------------------------------------------------------------
(* Switch edges *)

\* buttons() has just returned 0: the step consumes a switch edge
SwitchStep == pc = "poll" /\ pc' = "loop" /\ button_pressed' = 0

\* C23: a switch edge in Home flips the sub-selection and stays in Home; in
\* the confirmation menus and on the DONE screen it changes neither the menu
\* nor the sub-selection; a confirmation menu is left only by a select edge,
\* forward into its run
C23_SwitchEdges ==
  [][/\ SwitchStep
          => /\ currentMenu' = currentMenu
             /\ currentSelection' =
                  IF currentMenu = 0 THEN 1 - currentSelection
                  ELSE currentSelection
     /\ (currentMenu \in {1, 3} /\ currentMenu' # currentMenu)
          => /\ SelectStep
             /\ currentMenu' = IF currentMenu = 1 THEN 2 ELSE 5]_vars

\* a switch edge has been consumed on the DONE screen after a calibration
C23_Reached ==
  /\ pc = "loop" /\ button_pressed = 0
  /\ currentMenu = 5 /\ currentSelection = 1

----------------------------------------------------------------------------
(* The initial reading *)

\* C24 as stated: the initial reading is that of the first accepted sample
\* of the session
C24_InitialFromFirstAccepted ==
  (InSession /\ initialTaken)
    => (accepted # << >> /\ initial = Reading(accepted[1]))

\* C24: the initial reading is captured in the first iteration of the
\* session, from the sample taken there whether it is accepted or not, and
\* no later sample of the session overwrites it
C24_InitialFromFirstSample ==
  InSession =>
    /\ initialTaken = (pc # "sample" \/ n > 0)
    /\ initialTaken => initial = Reading(0)

\* samples were accepted, the first of them after the first iteration with
\* other readings, and the initial reading is that of the first iteration
C24_Reached ==
  /\ pc = "check" /\ initialTaken
  /\ accepted # << >> /\ accepted[1] > 0
  /\ Reading(accepted[1]) # Reading(0)
  /\ initial = Reading(0)

----------------------------------------------------------------------------
(* The running extent of a graph window *)

\* C25 as stated: once a window has been given a measurement, its running
\* minimum is the smallest and its running maximum the largest measurement
\* it was given so far, whatever the measurements are
C25_RunningExtent ==
  observed > 0 =>
    \A c \in GraphChannels : xMin[c] = seen[c].min /\ xMax[c] = seen[c].max

\* the windows were given -1 and then larger values: the running minimum
\* is above -1
C25_Reached ==
  /\ pc = "graph" /\ observed >= 2
  /\ seen[2].min = 0 - 1
  /\ xMin[2] > 0 - 1

----------------------------------------------------------------------------
(* The lifetime of the graph windows *)

\* C26 as stated: a Measuring session starts with every window empty and
\* its minimum and maximum unseeded
C26_FreshWindows ==
  (build = "advanced" /\ pc = "sample" /\ n = 0)
    => \A c \in GraphChannels :
         xLen[c] = 0 /\ xMin[c] = 0 - 1 /\ xMax[c] = 0 - 1

\* the second Measuring session of a power cycle starts: the red window
\* holds the positions and the extent of the first
C26_Reached ==
  /\ build = "advanced" /\ runs = 2 /\ pc = "sample" /\ n = 0
  /\ xLen[2] > 0 /\ xMax[2] # 0 - 1

----------------------------------------------------------------------------
(* The ultraviolet baseline *)

\* the sum of the ultraviolet readings of passes 0..k-1
RECURSIVE UvSum(_)
UvSum(k) == IF k = 0 THEN 0 ELSE UvSum(k - 1) + UvReading(k - 1)

\* C27 as stated: in both builds the step that completes a Calibrating run
\* leaves in the ultraviolet baseline the sum of the run's 20 ultraviolet
\* readings, accumulated from zero, divided by 20 as integers, and has saved
\* the profile when the DONE screen is shown
C27_UvAverage ==
  [][CalFinishStep
       => /\ uvCalibration' = TruncDiv(UvSum(CalSamples), CalSamples)
          /\ configFile' = File(WrittenFile(LoadedProfile'))]_vars

\* the basic build has completed a Calibrating run whose sum started from
\* what the stack held: the baseline saved is not the average of the readings
C27_Reached ==
  /\ build = "basic" /\ pc = "loop" /\ currentMenu = 5
  /\ uvCalibration # TruncDiv(UvSum(CalSamples), CalSamples)
  /\ configFile = File(WrittenFile(LoadedProfile))

----------------------------------------------------------------------------
(* The time averages *)

\* C28 as stated: a slot is divided by 10 only when it has received 10
\* samples of its channel, the write index advances only then, it stays in
\* 0..9, and the slots of all channels at an index that is complete have
\* been divided the same number of times
C28_TimeAverageGrid ==
  /\ averageIndex \in Slots
  /\ \A ch \in Channels, i \in Slots :
       timeAverages[ch][i].adds = 10 * timeAverages[ch][i].divs
         + (IF i = averageIndex THEN sampleCounter ELSE 0)
  /\ \A ch \in Channels, i \in Slots :
       i # averageIndex => timeAverages[ch][i].divs = timeAverages[1][i].divs

\* two samples were accepted: the tenth call, for the fourth channel of the
\* second sample, divided that channel's slot holding two readings and
\* advanced the index; the last two channels went to the next slot
C28_Reached ==
  /\ averageIndex = 1 /\ sampleCounter = 2
  /\ timeAverages[4][0] = [adds |-> 2, divs |-> 1]
  /\ timeAverages[3][0] = [adds |-> 2, divs |-> 0]
  /\ timeAverages[5][1] = [adds |-> 1, divs |-> 0]

----------------------------------------------------------------------------
(* checkHeader(): the retry budget *)

\* the step takes a byte out of the receive buffer
ByteTaken == Len(parse'.stream) < Len(parse.stream)
\* C29: once the comparison has started, a read that finds no byte
\* uses up one of 1000 polls, and at the 1000th in a row checkHeader() returns
\* false instead of waiting on; every byte received puts the budget back to
\* zero; the call always returns.
C29_BudgetPerByte ==
  /\ [](parse.outcome = "comparing" => parse.timeOut < Patience)
  /\ [][ /\ ~ByteTaken =>
             /\ parse'.timeOut = parse.timeOut + 1
             /\ parse'.outcome = IF parse'.timeOut < Patience THEN "comparing"
                                 ELSE "false"
         /\ ByteTaken =>
             (parse'.timeOut = 0 \/ parse'.outcome # "comparing") ]_vars
  /\ <>(parse.outcome # "comparing")

\* the header stopped after its 12th byte; a byte had come at the last poll
\* of a budget and the comparison went on, then 1000 polls in a row found
\* nothing and checkHeader() returned false
C29_Reached ==
  /\ parse.outcome = "false" /\ parse.timeOut = Patience
  /\ parse.filePosition = 12 /\ parse.stream = << >>
  /\ parse.lateByte

----------------------------------------------------------------------------
(* readConfigData(): the field buffer *)

\* C30: while the data row is parsed no write to dataBuf goes past index 9,
\* the terminator included: a field too long for the buffer is refused
\* instead of stored
C30_FieldCapacity == parse.top <= dataBufLen - 1

\* a boot has read a row whose first field has 10 characters: the
\* terminator went to dataBuf[10], and the globals hold a profile that is
\* not the one in the file
C30_Reached ==
  /\ pc = "loop" /\ loaded = "parsed"
  /\ parse.top = dataBufLen
  /\ configFile.lines[2] \in LongRows
  /\ index = 32767

----------------------------------------------------------------------------
(* The acceptance test of measuringMenu1() *)

\* C31: at every point of a Measuring session with k >= 1 accepted samples
\* the elapsed time is above k * 6000 ms: in the basic build two samples
\* accepted one after the other are more than 6000 ms apart, in the advanced
\* build the k-th accepted sample was taken later than k * 6000 ms
C31_AcceptanceRate ==
  (InSession /\ datalen >= 1) =>
    /\ datalen = Len(accepted)
    /\ current_time > datalen * ms_time
    /\ \A j \in 1..Len(accepted) : Time(accepted[j]) > j * ms_time
    /\ build = "basic" =>
         \A j \in 2..Len(accepted) :
           Time(accepted[j]) - Time(accepted[j - 1]) > ms_time

\* advanced build, a sample every 1500 ms: six samples were accepted, the
\* sixth at 37500 ms, and the seventh is accepted at the very next sample,
\* 39000 ms, which is below 7 * 6000 ms
C31_Reached ==
  /\ build = "advanced" /\ intMul = "wrap16" /\ pc = "check"
  /\ datalen = 7 /\ current_time = 39000
  /\ accepted[6] = 25 /\ accepted[7] = 26

\* C32: a Measuring run that ends on its time ceiling has accepted at least
\* one sample, so the sum of x * x that divides the six sums of x * y is
\* above zero when processSlopes() runs
C32_CeilingHasSamples ==
  (pc = "results" /\ exitBy = "time") =>
    /\ datalen >= 1 /\ Len(accepted) >= 1
    /\ WSign(x2) > 0
    /\ \A i \in Channels : WSign(slopes[i].den) > 0

\* basic build: the second sample, at 1500 ms, is past the ceiling test and
\* ends the run; nothing was accepted, and each slope is 0 / 0
C32_Reached ==
  /\ build = "basic" /\ pc = "results" /\ exitBy = "time"
  /\ current_time = 1500 /\ logRows = 2
  /\ datalen = 0 /\ x2 = WZero
  /\ \A i \in Channels : slopes[i].k = "nan" /\ slopes[i].den = WZero

\* the step is an iteration of the advanced loop taking its sample
AdvancedSampleStep == build = "advanced" /\ pc = "sample" /\ pc' = "check"

\* C33: on the 16-bit int of the Arduino Uno nothing wraps: the scale held in
\* signal_resolution_multiplier is 1000000, datalen * ms_time is
\* datalen * 6000 for every datalen in 0..49, and the advanced loop accepts
\* the next point exactly when the elapsed time is above
\* (datalen + 1) * 6000 ms
C33_NoWraparound ==
  /\ [](/\ signal_resolution_multiplier = 1000000
        /\ \A dl \in 0..(maxlen - 1) : Product(dl) = dl * ms_time)
  /\ [][(AdvancedSampleStep /\ datalen < maxlen) =>
          (datalen' = datalen + 1 <=> current_time' > (datalen + 1) * ms_time)]_vars

\* advanced build with the product wrapped: six points are accepted, the
\* product for the seventh is 36000 - 65536, and the sample about to be
\* taken, below 42000 ms, passes the test; the scale is 1000000 - 15 * 65536
C33_Reached ==
  /\ build = "advanced" /\ intMul = "wrap16" /\ pc = "sample"
  /\ datalen = 6 /\ Product(datalen) = 36000 - 65536
  /\ Time(n) < (datalen + 1) * ms_time /\ AcceptAdvanced(Time(n), datalen)
  /\ signal_resolution_multiplier = 1000000 - 15 * 65536

----------------------------------------------------------------------------
(* One press, one action *)

\* C34: a press of select that is held causes one transition at most: no
\* rising edge is taken while the press that caused the last transition is
\* still held; when buttons() is entered again after a menu was drawn or a
\* run has ended with the press held, its historic level is 1, and so is the
\* level a Measuring session compares with when the press that started it
\* is held, so that press is not taken for the abort
C34_OnePressOneAction ==
  /\ ~press.again
  /\ (pc = "poll" /\ press.held) => histSelect = 1
  /\ (pc \in {"sample", "check"} /\ press.held) => historicSelectState = 1

\* a Measuring run was started and has ended, the home menu is drawn and
\* buttons() polls again: the press that caused the last transition has been
\* held all the while and nothing further has come of it
C34_Reached ==
  /\ pc = "poll" /\ currentMenu = 0 /\ runs = 1 /\ logRows = 0
  /\ button_pressed = 1
  /\ press.held /\ ~press.again /\ histSelect = 1

====
